---- MODULE Spec2Model ----
(***************************************************************************)
(* A model of the PPTX reconstruction engine of canvas-create-flow.        *)
(*                                                                         *)
(* XML text is modelled as a sequence of tokens (tags with the attributes  *)
(* the extractors read, and text nodes); every regular expression of the   *)
(* source is an operator over such a sequence that matches what the        *)
(* expression matches on the serialised text.  JavaScript numbers are      *)
(* modelled as exact rationals [n, d] (d = 0 stands for Infinity / NaN).   *)
(***************************************************************************)
EXTENDS Integers, Sequences, FiniteSets, TLC

VARIABLES
    pc,             \* position of the run that the current specification models
    presentationXml,\* ppt/presentation.xml: the declared slide size
    props,          \* result of parsePresentationProps
    slideXml,       \* the slide part being extracted (its text is Serialize(slideXml))
    slideRels,      \* the slide's relationship map  (id -> raw target)
    zip,            \* the archive: ordered entry names
    extracted,      \* the elements array just before the final sort
    elements,       \* the array returned by extractSlideElements
    target,         \* resolveRelationshipTarget: raw target
    basePath,       \* resolveRelationshipTarget: base path argument
    resolved,       \* resolveRelationshipTarget: result
    pkgFiles,       \* parseAllSlides: the parts of the archive, in key order
    slideFiles,     \* parseAllSlides: the filtered and sorted file list
    slideIndex,     \* parseAllSlides: the loop index into slideFiles
    slides,         \* parseAllSlides: the slides pushed so far
    xmlContent,     \* extractColor: the fragment searched for a colour
    color,          \* extractColor: result
    fillNode,       \* extractFill: the text of the shape node
    fill,           \* extractFill: result
    paragraph,      \* extractTextRuns: the content of the paragraph
    textRuns,       \* extractTextRuns: result
    textNode,       \* extractTextFromShape: the text of the shape node
    textElement,    \* extractTextFromShape: result
    lengthEmu,      \* unit conversion: a length in native units
    viaPoints,      \* pointsToPixels(emuToPoints(lengthEmu))
    direct,         \* emuToPixels(lengthEmu, 1)
    uploaded,       \* processUploadedFiles: the files of the batch
    fileIndex,      \* processUploadedFiles: the loop index into the files
    parsedIndex,    \* processUploadedFiles: the loop index into parsedSlides
    currentFileTemplate, \* processUploadedFiles: template remembered for the file
    allSlides,      \* processUploadedFiles: the slides collected so far
    parserCalls,    \* processUploadedFiles: the parser calls made, in order
    lookupPath,     \* findImageInZip: the resolved image path
    lookupZip,      \* findImageInZip: the archive entries, in archive order
    lookupResult,   \* findImageInZip: the entry returned (0 for null)
    templateSlide,  \* applyTemplateStyle: the slide before styling
    appliedOnce,    \* applyTemplateStyle: the slide styled once
    appliedTwice,   \* applyTemplateStyle: the slide styled twice
    engineElements, \* convertElements: the elements of the engine
    slideElements,  \* convertElements: result
    editorSlides,   \* Index: the slides state
    currentSlideId, \* Index: the currentSlideId state
    clock           \* Index: the value Date.now() returns

vars == <<pc, presentationXml, props, slideXml, slideRels, zip, extracted,
          elements, target, basePath, resolved, pkgFiles, slideFiles, slideIndex,
          slides, xmlContent, color, fillNode, fill, paragraph, textRuns, textNode,
          textElement, lengthEmu, viaPoints, direct, uploaded, fileIndex,
          parsedIndex, currentFileTemplate, allSlides, parserCalls, lookupPath,
          lookupZip, lookupResult, templateSlide, appliedOnce, appliedTwice,
          engineElements, slideElements, editorSlides, currentSlideId, clock>>

slideVars == <<presentationXml, props, slideXml, slideRels, zip, extracted, elements>>
resolveVars == <<target, basePath, resolved>>
pkgVars == <<pkgFiles, slideFiles, slideIndex, slides>>
fillVars == <<xmlContent, color, fillNode, fill>>
textVars == <<paragraph, textRuns, textNode, textElement>>
unitVars == <<lengthEmu, viaPoints, direct>>
batchVars == <<uploaded, fileIndex, parsedIndex, currentFileTemplate, allSlides,
               parserCalls>>
lookupVars == <<lookupPath, lookupZip, lookupResult>>
templateVars == <<templateSlide, appliedOnce, appliedTwice>>
convertVars == <<engineElements, slideElements>>
editorVars == <<editorSlides, currentSlideId, clock>>
appVars == <<lookupVars, templateVars, convertVars, editorVars>>
auxVars == <<fillVars, textVars, unitVars, batchVars, appVars>>
coreVars == <<slideVars, resolveVars, pkgVars>>

-----------------------------------------------------------------------------
(* Bounds of the model *)

MaxNodes == 2          \* top-level nodes of a generated shape tree
MaxTargetLen == 3      \* segments of a generated relationship target
MaxSlideParts == 3     \* slide parts of a generated package

(* Program constants *)

DEFAULT_SLIDE_WIDTH_EMU == 12192000
DEFAULT_SLIDE_HEIGHT_EMU == 6858000
RENDER_WIDTH == 960
RENDER_HEIGHT == 540
EMU_PER_INCH == 914400
EMU_PER_POINT == 12700
PIXELS_PER_INCH == 96

-----------------------------------------------------------------------------
(* JavaScript numbers as exact rationals *)

Abs(i) == IF i < 0 THEN -i ELSE i

Sign(i) == IF i < 0 THEN -1 ELSE IF i > 0 THEN 1 ELSE 0

RECURSIVE GCD(_, _)
GCD(a, b) == IF b = 0 THEN a ELSE GCD(b, a % b)

NonZero(g) == IF g = 0 THEN 1 ELSE g

Num(i) == [n |-> i, d |-> 1]

Norm(n, d) ==
    IF d = 0 THEN [n |-> Sign(n), d |-> 0]
    ELSE LET g == NonZero(GCD(Abs(n), Abs(d)))
         IN  [n |-> (Sign(d) * n) \div g, d |-> Abs(d) \div g]

\* a * b
Mul(a, b) ==
    LET g1 == NonZero(GCD(Abs(a.n), b.d))
        g2 == NonZero(GCD(Abs(b.n), a.d))
    IN  Norm((a.n \div g1) * (b.n \div g2), (a.d \div g2) * (b.d \div g1))

\* a / b
Div(a, b) == Mul(a, IF b.n < 0 THEN [n |-> -b.d, d |-> -b.n] ELSE [n |-> b.d, d |-> b.n])

\* a + b
Add(a, b) ==
    IF a.d = 0 THEN a
    ELSE IF b.d = 0 THEN b
    ELSE LET g == NonZero(GCD(a.d, b.d))
         IN  Norm(a.n * (b.d \div g) + b.n * (a.d \div g), (a.d \div g) * b.d)

\* a < b, for finite a and b
Less(a, b) == a.n * b.d < b.n * a.d

IsFinite(a) == a.d # 0

-----------------------------------------------------------------------------
(* Unit conversion (units.ts) *)

\* slideWidthEmu is a JavaScript number: it may be NaN
calculateScaleFactor(slideWidthEmu, targetWidth) ==
    Div(Num(targetWidth),
        Mul(Div(slideWidthEmu, Num(EMU_PER_INCH)), Num(PIXELS_PER_INCH)))

emuToPixels(emu, scaleFactor) ==
    Mul(Mul(Div(emu, Num(EMU_PER_INCH)), Num(PIXELS_PER_INCH)), scaleFactor)

\* called by the extractors with one argument: slideWidthEmu takes its default
emuToScaledX(emu) ==
    emuToPixels(emu, calculateScaleFactor(Num(DEFAULT_SLIDE_WIDTH_EMU), RENDER_WIDTH))

emuToScaledY(emu) ==
    emuToPixels(emu, calculateScaleFactor(Num(DEFAULT_SLIDE_WIDTH_EMU), RENDER_WIDTH))

-----------------------------------------------------------------------------
(* XML text as tokens *)

NoNum == [a \in {} |-> 0]
NoStr == [a \in {} |-> ""]

\* a tag or a text node; num and str hold the attributes present on the tag
\* (numeric and textual values), text holds the characters of a text node
Tok(tag, kind, num, str) == [tag |-> tag, kind |-> kind, num |-> num, str |-> str, text |-> ""]

Open(tag) == Tok(tag, "open", NoNum, NoStr)
Close(tag) == Tok(tag, "close", NoNum, NoStr)
Empty(tag) == Tok(tag, "empty", NoNum, NoStr)
Text(s) == [Tok("#text", "text", NoNum, NoStr) EXCEPT !.text = s]

\* <tag ...> or <tag .../> whose name starts with the given prefix: the tags of
\* the model that start with "<p:sp", "<p:pic", "<p:grpSp"
TagsStarting(prefix) ==
    CASE prefix = "p:sp" -> {"p:sp", "p:spPr", "p:spTree"}
      [] prefix = "p:pic" -> {"p:pic"}
      [] prefix = "p:grpSp" -> {"p:grpSp", "p:grpSpPr"}
      [] OTHER -> {prefix}

StartsTag(t, prefix) == t.kind \in {"open", "empty"} /\ t.tag \in TagsStarting(prefix)

IsClose(t, tag) == t.kind = "close" /\ t.tag = tag

\* text.includes('<prefix')
Includes(text, prefix) == \E i \in 1..Len(text) : StartsTag(text[i], prefix)

MinOf(S) == CHOOSE i \in S : \A j \in S : i <= j

NoMatch == [s |-> 0, e |-> 0]

\* /<prefix[^>]*>([\s\S]*?)<\/tag>/ searched from position `from`: the first
\* opening tag, lazily extended to the first closing tag after it
Match(text, from, prefix, tag) ==
    LET opens == {i \in from..Len(text) : StartsTag(text[i], prefix)
                      /\ \E j \in (i+1)..Len(text) : IsClose(text[j], tag)}
    IN  IF opens = {} THEN NoMatch
        ELSE LET s == MinOf(opens)
             IN  [s |-> s, e |-> MinOf({j \in (s+1)..Len(text) : IsClose(text[j], tag)})]

\* the character class [\\s\\S] of a regular-expression literal holds the three
\* characters backslash, "s" and "S": no tag (it starts with "<") is in it
InBackslashSClass(t) == t.kind = "text" /\ t.text \in {"s", "S", "sS", "Ss"}

\* /<prefix[^>]*>([\\s\\S]*?)<\/tag>/ searched from position `from`
MatchBackslashS(text, from, prefix, tag) ==
    LET ok(i, j) == /\ StartsTag(text[i], prefix)
                    /\ IsClose(text[j], tag)
                    /\ \A k \in (i+1)..(j-1) : InBackslashSClass(text[k])
        opens == {i \in from..Len(text) : \E j \in (i+1)..Len(text) : ok(i, j)}
    IN  IF opens = {} THEN NoMatch
        ELSE LET s == MinOf(opens)
             IN  [s |-> s, e |-> MinOf({j \in (s+1)..Len(text) : ok(s, j)})]

\* the tag written exactly as <tag>, without attributes
IsBareOpen(t, tag) ==
    t.kind = "open" /\ t.tag = tag /\ DOMAIN t.num = {} /\ DOMAIN t.str = {}

\* /<tag>([\s\S]*?)<\/tag>/
MatchBare(text, from, tag) ==
    LET opens == {i \in from..Len(text) : IsBareOpen(text[i], tag)
                      /\ \E j \in (i+1)..Len(text) : IsClose(text[j], tag)}
    IN  IF opens = {} THEN NoMatch
        ELSE LET s == MinOf(opens)
             IN  [s |-> s, e |-> MinOf({j \in (s+1)..Len(text) : IsClose(text[j], tag)})]

\* /<tag>([\\s\\S]*?)<\/tag>/ searched from position `from`
MatchBareBackslashS(text, from, tag) ==
    LET ok(i, j) == /\ IsBareOpen(text[i], tag)
                    /\ IsClose(text[j], tag)
                    /\ \A k \in (i+1)..(j-1) : InBackslashSClass(text[k])
        opens == {i \in from..Len(text) : \E j \in (i+1)..Len(text) : ok(i, j)}
    IN  IF opens = {} THEN NoMatch
        ELSE LET s == MinOf(opens)
             IN  [s |-> s, e |-> MinOf({j \in (s+1)..Len(text) : ok(s, j)})]

Inner(text, m) == SubSeq(text, m.s + 1, m.e - 1)
Whole(text, m) == SubSeq(text, m.s, m.e)

\* the first token that carries the numeric attribute, 0 when there is none
FirstNum(text, attr) ==
    LET S == {i \in 1..Len(text) : attr \in DOMAIN text[i].num}
    IN  IF S = {} THEN 0 ELSE MinOf(S)

\* the first token that carries the textual attribute, 0 when there is none
FirstStr(text, attr) ==
    LET S == {i \in 1..Len(text) : attr \in DOMAIN text[i].str}
    IN  IF S = {} THEN 0 ELSE MinOf(S)

\* the first tag of the given name that carries both numeric attributes
FirstTagWith(text, tag, a1, a2) ==
    LET S == {i \in 1..Len(text) : /\ StartsTag(text[i], tag)
                                    /\ {a1, a2} \subseteq DOMAIN text[i].num}
    IN  IF S = {} THEN 0 ELSE MinOf(S)

RECURSIVE Flatten(_)
Flatten(ss) == IF ss = <<>> THEN <<>> ELSE Head(ss) \o Flatten(Tail(ss))

-----------------------------------------------------------------------------
(* Relationship targets (relationParser)                                   *)
(* A path string is modelled by its '/'-separated segments: "a/b" is       *)
(* <<"a", "b">>, "/a" is <<"", "a">> and the empty string is <<"">>.       *)

EmptyString == <<"">>

\* parts.slice(0, -1)
DropLast(parts) == SubSeq(parts, 1, Len(parts) - 1)

\* parts.join('/'): joining no parts gives the empty string
Join(parts) == IF parts = <<>> THEN EmptyString ELSE parts

\* s.startsWith('/')
StartsWithSlash(s) == Len(s) >= 2 /\ s[1] = ""

\* s.startsWith('../')
StartsWithDotDotSlash(s) == Len(s) >= 2 /\ s[1] = ".."

RECURSIVE WalkParts(_, _)
WalkParts(parts, baseParts) ==
    IF parts = <<>> THEN baseParts
    ELSE LET part == Head(parts)
         IN  IF part = ".."
             THEN WalkParts(Tail(parts),
                            IF baseParts = <<>> THEN <<>> ELSE DropLast(baseParts))
             ELSE IF part # "."
             THEN WalkParts(Tail(parts), Append(baseParts, part))
             ELSE WalkParts(Tail(parts), baseParts)

resolveRelativePath(relativePath, baseDir) == Join(WalkParts(relativePath, baseDir))

resolveRelationshipTarget(tgt, base) ==
    IF StartsWithSlash(tgt)
    THEN Tail(tgt)
    ELSE IF StartsWithDotDotSlash(tgt)
    THEN resolveRelativePath(tgt, Join(DropLast(base)))
    ELSE Join(DropLast(base)) \o tgt

-----------------------------------------------------------------------------
(* Strings that are either a package path, a data URL or undefined *)

PathStr(segs) == [kind |-> "path", segs |-> segs, mime |-> "", payload |-> <<>>]
DataUrl(mime, payload) == [kind |-> "data", segs |-> <<>>, mime |-> mime, payload |-> payload]
Undefined == [kind |-> "undefined", segs |-> <<>>, mime |-> "", payload |-> <<>>]
Thrown == [kind |-> "throw", segs |-> <<>>, mime |-> "", payload |-> <<>>]

\* the undefined result of a function that returns a path
UndefinedPath == <<>>

(* Facts about the file names of the model *)

\* name.toLowerCase()
Lower(seg) == IF seg = "IMAGE1.PNG" THEN "image1.png" ELSE seg

\* a.endsWith(b)
SegEndsWith(a, b) == a = b \/ b = "" \/ <<a, b>> \in {<<"ximage1.png", "image1.png">>}

\* the text after the last '.', lower-cased
ExtensionOf(segs) ==
    LET last == segs[Len(segs)]
    IN  IF Lower(last) \in {"image1.png", "missing.png", "ximage1.png"} THEN "png"
        ELSE IF last = "photo.gif" THEN "gif"
        ELSE last

\* display names that hold a character outside Latin-1 (a CJK name)
NonLatin1Names == {"U+56FE U+7247 1"}

-----------------------------------------------------------------------------
(* Elements (types/pptx) *)

\* an id read from the node, or one generated from a prefix, Date.now() and a
\* count; the time read is left out of the generated id
NodeId(n) == [gen |-> "", n |-> n]
GeneratedId(prefix, n) == [gen |-> prefix, n |-> n]

\* a name attribute, or the default `<Kind> <id>`
GivenName(text) == [text |-> text, n |-> 0]
DefaultName(kind, n) == [text |-> kind, n |-> n]

NoImageData == [cropRect |-> <<>>, brightness |-> <<>>, contrast |-> <<>>]

Element(type) ==
    [type |-> type, id |-> NodeId(0), name |-> GivenName(""),
     x |-> Num(0), y |-> Num(0), width |-> Num(0), height |-> Num(0),
     rotation |-> Num(0), flipH |-> FALSE, flipV |-> FALSE, zIndex |-> 0,
     src |-> Undefined, content |-> Undefined, isPlaceholder |-> FALSE,
     imageData |-> NoImageData, groupRelative |-> <<>>, children |-> <<>>,
     shapeType |-> "", textContent |-> <<>>, paragraphs |-> <<>>]

\* the null result of an extractor
Null == Element("null")

NoPosition ==
    [ok |-> FALSE, x |-> Num(0), y |-> Num(0), width |-> Num(0), height |-> Num(0),
     rotation |-> Num(0), flipH |-> FALSE, flipV |-> FALSE]

\* /id="(\d+)"/ on a node, parsed: the draw-order key
extractZIndex(node) ==
    LET i == FirstNum(node, "id") IN IF i = 0 THEN 0 ELSE node[i].num["id"]

-----------------------------------------------------------------------------
(* Image resolver (imageExtractor.ts) *)

POTENTIAL_IMAGE_PATHS ==
    << <<>>, <<"ppt", "media">>, <<"media">>, <<"word", "media">>, <<"xl", "media">>,
       <<"ppt", "embeddings">>, <<"embeddings">> >>

\* zip.file(path): the index of the entry of that exact name, 0 for null
ZipFile(z, path) ==
    LET S == {i \in 1..Len(z) : z[i].name = path}
    IN  IF S = {} THEN 0 ELSE MinOf(S)

\* the first entry, in archive order, whose lower-cased name ends with the
\* lower-cased file name
CaseInsensitiveHit(z, fileName) ==
    LET S == {i \in 1..Len(z) :
                SegEndsWith(Lower(z[i].name[Len(z[i].name)]), Lower(fileName))}
    IN  IF S = {} THEN 0 ELSE MinOf(S)

RECURSIVE TryPrefixes(_, _, _)
TryPrefixes(prefixes, imagePath, z) ==
    IF prefixes = <<>> THEN 0
    ELSE LET prefix == Head(prefixes)
             fileName == imagePath[Len(imagePath)]
         IN  IF prefix = <<>> /\ Len(imagePath) >= 2
             THEN TryPrefixes(Tail(prefixes), imagePath, z)
             ELSE IF fileName = ""
             THEN TryPrefixes(Tail(prefixes), imagePath, z)
             ELSE IF ZipFile(z, prefix \o <<fileName>>) # 0
             THEN ZipFile(z, prefix \o <<fileName>>)
             ELSE IF CaseInsensitiveHit(z, fileName) # 0
             THEN CaseInsensitiveHit(z, fileName)
             ELSE TryPrefixes(Tail(prefixes), imagePath, z)

\* a data URL given as the path names no entry: it holds a '/', and no entry
\* name ends with the tail of a base64 payload
findImageInZip(imagePath, z) ==
    IF imagePath.kind # "path" THEN 0
    ELSE IF ZipFile(z, imagePath.segs) # 0 THEN ZipFile(z, imagePath.segs)
    ELSE TryPrefixes(POTENTIAL_IMAGE_PATHS, imagePath.segs, z)

MimeOf(extension) ==
    CASE extension = "png" -> "image/png"
      [] extension = "gif" -> "image/gif"
      [] extension = "svg" -> "image/svg+xml"
      [] extension = "wmf" -> "image/wmf"
      [] extension = "emf" -> "image/emf"
      [] OTHER -> "image/jpeg"

createImageDataUrl(imagePath, z) ==
    LET imageFile == findImageInZip(imagePath, z)
    IN  IF imageFile = 0 THEN Undefined
        ELSE DataUrl(MimeOf(ExtensionOf(imagePath.segs)), <<"base64", z[imageFile].bytes>>)

\* btoa throws on a character outside Latin-1; the names of the model are
\* shorter than 20 characters, so substring(0, 20) keeps them whole
generatePlaceholderImage(name) ==
    IF name.text \in NonLatin1Names THEN Thrown
    ELSE DataUrl("image/svg+xml", <<"base64 svg", name.text>>)

\* the element with the fields of a position object
Placed(el, position) ==
    [el EXCEPT !.x = position.x, !.y = position.y,
               !.width = position.width, !.height = position.height,
               !.rotation = position.rotation,
               !.flipH = position.flipH, !.flipV = position.flipV]

\* the position object built from the <a:off> and <a:ext> tags and the rot
\* attribute (0: none) found in the transform
ScaledPosition(offTag, extTag, rotTag) ==
    [ok |-> TRUE,
     x |-> emuToScaledX(Num(offTag.num["x"])),
     y |-> emuToScaledY(Num(offTag.num["y"])),
     width |-> emuToScaledX(Num(extTag.num["cx"])),
     height |-> emuToScaledY(Num(extTag.num["cy"])),
     rotation |-> IF "rot" \in DOMAIN rotTag.num
                  THEN Div(Num(rotTag.num["rot"]), Num(60000)) ELSE Num(0),
     flipH |-> FALSE, flipV |-> FALSE]

\* the offset, extent and rotation read from the content of a transform
PositionIn(xfrmContent, off, ext, rot) ==
    IF off = 0 \/ ext = 0 THEN NoPosition
    ELSE ScaledPosition(xfrmContent[off], xfrmContent[ext],
                        IF rot = 0 THEN Empty("a:xfrm") ELSE xfrmContent[rot])

XfrmPosition(xfrmContent) ==
    PositionIn(xfrmContent,
               FirstTagWith(xfrmContent, "a:off", "x", "y"),
               FirstTagWith(xfrmContent, "a:ext", "cx", "cy"),
               FirstNum(xfrmContent, "rot"))

\* the transform of a picture: /<a:xfrm[^>]*>([\s\S]*?)<\/a:xfrm>/
extractImagePosition(picNode) ==
    LET m == Match(picNode, 1, "a:xfrm", "a:xfrm")
    IN  IF m = NoMatch THEN NoPosition ELSE XfrmPosition(Inner(picNode, m))

extractImageSource(picNode, relationships, base) ==
    LET S == {i \in 1..Len(picNode) : /\ StartsTag(picNode[i], "a:blip")
                                      /\ "r:embed" \in DOMAIN picNode[i].str}
    IN  IF S = {} THEN UndefinedPath
        ELSE LET relationshipId == picNode[MinOf(S)].str["r:embed"]
             IN  IF relationshipId \notin DOMAIN relationships THEN UndefinedPath
                 ELSE IF relationships[relationshipId] = EmptyString THEN UndefinedPath
                 ELSE resolveRelationshipTarget(relationships[relationshipId], base)

CropSide(srcRect, side) ==
    IF side \in DOMAIN srcRect.num THEN Div(Num(srcRect.num[side]), Num(1000)) ELSE Num(0)

extractImageData(picNode) ==
    LET S == {i \in 1..Len(picNode) : StartsTag(picNode[i], "a:srcRect")}
        M == {i \in 1..Len(picNode) : StartsTag(picNode[i], "a:lumMod")
                                      /\ "val" \in DOMAIN picNode[i].num}
        O == {i \in 1..Len(picNode) : StartsTag(picNode[i], "a:lumOff")
                                      /\ "val" \in DOMAIN picNode[i].num}
    IN  [cropRect |->
            IF S = {} THEN <<>>
            ELSE LET srcRect == picNode[MinOf(S)]
                 IN  IF DOMAIN srcRect.num \cap {"l", "r", "t", "b"} = {} THEN <<>>
                     ELSE <<CropSide(srcRect, "l"), CropSide(srcRect, "r"),
                            CropSide(srcRect, "t"), CropSide(srcRect, "b")>>,
         brightness |->
            IF M = {} THEN <<>>
            ELSE <<Add(Div(Num(picNode[MinOf(M)].num["val"]), Num(100000)), Num(-1))>>,
         contrast |->
            IF O = {} THEN <<>>
            ELSE <<Div(Num(picNode[MinOf(O)].num["val"]), Num(100000))>>]

\* the image with the data URL of its media, with the placeholder when the
\* media is not found, or null when building the placeholder throws
WithSource(image, dataUrl, placeholderUrl) ==
    IF dataUrl = Undefined
    THEN IF placeholderUrl = Thrown THEN Null
         ELSE [image EXCEPT !.src = placeholderUrl, !.content = placeholderUrl,
                            !.isPlaceholder = TRUE]
    ELSE [image EXCEPT !.src = dataUrl, !.content = dataUrl]

\* the part of extractImage that follows the reading of id and name
ImageNamed(picNode, id, name, position, src, z) ==
    IF ~position.ok THEN Null
    ELSE IF src = UndefinedPath \/ src = EmptyString THEN Null
    ELSE WithSource(
            Placed([Element("image") EXCEPT
                       !.id = NodeId(id), !.name = name,
                       !.imageData = extractImageData(picNode),
                       !.zIndex = extractZIndex(picNode)],
                   position),
            createImageDataUrl(PathStr(src), z),
            generatePlaceholderImage(name))

\* scaleFactor is accepted and never read
extractImage(picNode, relationships, z, scaleFactor) ==
    LET idMatch == FirstNum(picNode, "id")
        nameMatch == FirstStr(picNode, "name")
    IN  IF idMatch = 0 THEN Null
        ELSE ImageNamed(picNode, picNode[idMatch].num["id"],
                        IF nameMatch # 0 THEN GivenName(picNode[nameMatch].str["name"])
                        ELSE DefaultName("Image", picNode[idMatch].num["id"]),
                        extractImagePosition(picNode),
                        extractImageSource(picNode, relationships, <<"ppt", "slides">>),
                        z)

-----------------------------------------------------------------------------
(* Text reconstructor (textExtractor.ts), as far as the shape extractor uses it *)

\* /<a:p>([\\s\\S]*?)<\/a:p>/g: one paragraph per match
RECURSIVE ParagraphLoop(_, _, _)
ParagraphLoop(txBodyContent, from, acc) ==
    LET m == MatchBareBackslashS(txBodyContent, from, "a:p")
    IN  IF m = NoMatch THEN acc
        ELSE ParagraphLoop(txBodyContent, m.e + 1,
                           Append(acc, [text |-> "", runs |-> <<>>]))

extractParagraphs(txBodyContent) == ParagraphLoop(txBodyContent, 1, <<>>)

\* the parent shape's transform, in the text extractor's own unit (emu / 9144):
\* /<a:xfrm[^>]*>([\\s\\S]*?)<\/a:xfrm>/
extractPositionFromShape(shapeNode) ==
    LET m == MatchBackslashS(shapeNode, 1, "a:xfrm", "a:xfrm")
        xfrmContent == Inner(shapeNode, m)
        off == FirstTagWith(xfrmContent, "a:off", "x", "y")
        ext == FirstTagWith(xfrmContent, "a:ext", "cx", "cy")
    IN  IF m = NoMatch THEN NoPosition
        ELSE IF off = 0 \/ ext = 0 THEN NoPosition
        ELSE [NoPosition EXCEPT
                !.ok = TRUE,
                !.x = Div(Num(xfrmContent[off].num["x"]), Num(9144)),
                !.y = Div(Num(xfrmContent[off].num["y"]), Num(9144)),
                !.width = Div(Num(xfrmContent[ext].num["cx"]), Num(9144)),
                !.height = Div(Num(xfrmContent[ext].num["cy"]), Num(9144))]

\* the part of extractTextFromShape that follows the match of the text body
TextElement(shapeNode, idMatch, position, paragraphs) ==
    IF ~position.ok THEN <<>>
    ELSE IF Len(paragraphs) = 0 THEN <<>>
    ELSE << Placed([Element("text") EXCEPT
                       !.id = IF idMatch # 0 THEN NodeId(shapeNode[idMatch].num["id"])
                              ELSE GeneratedId("text", 0),
                       !.paragraphs = paragraphs],
                   [position EXCEPT !.rotation = Num(0)]) >>

\* variant of extractTextFromShape: a text body always gives a Text element,
\* also when it has no paragraph
extractTextFromShape_KeepsEmptyBody(shapeNode) ==
    IF Includes(shapeNode, "p:txBody") THEN << Element("text") >> ELSE <<>>

\* <<>> is undefined ("no text"), otherwise <<the Text element>>
extractTextFromShape(shapeNode) ==
    LET m == MatchBareBackslashS(shapeNode, 1, "p:txBody")
    IN  IF m = NoMatch THEN <<>>
        ELSE TextElement(shapeNode, FirstNum(shapeNode, "id"),
                         extractPositionFromShape(shapeNode),
                         extractParagraphs(Inner(shapeNode, m)))

-----------------------------------------------------------------------------
(* Shape extractor (shapeExtractor.ts) *)

\* /<a:xfrm[^>]*>([\\s\\S]*?)<\/a:xfrm>/
extractShapePosition(shapeNode) ==
    LET m == MatchBackslashS(shapeNode, 1, "a:xfrm", "a:xfrm")
    IN  IF m = NoMatch THEN NoPosition ELSE XfrmPosition(Inner(shapeNode, m))

extractShapeType(shapeNode) ==
    LET S == {i \in 1..Len(shapeNode) : /\ StartsTag(shapeNode[i], "a:prstGeom")
                                        /\ "prst" \in DOMAIN shapeNode[i].str}
    IN  IF S # {} THEN shapeNode[MinOf(S)].str["prst"]
        ELSE IF Includes(shapeNode, "a:custGeom") THEN "custom"
        ELSE ""

\* the part of extractShape that follows the reading of id and name
ShapeNamed(shapeNode, id, name, position, shapeType) ==
    IF ~position.ok THEN Null
    ELSE Placed([Element("shape") EXCEPT
                    !.id = NodeId(id), !.name = name,
                    !.shapeType = IF shapeType = "" THEN "rect" ELSE shapeType,
                    !.textContent = extractTextFromShape(shapeNode),
                    !.zIndex = extractZIndex(shapeNode)],
                position)

extractShape(shapeNode, relationships, z, scaleFactor) ==
    LET idMatch == FirstNum(shapeNode, "id")
        nameMatch == FirstStr(shapeNode, "name")
    IN  IF idMatch = 0 THEN Null
        ELSE ShapeNamed(shapeNode, shapeNode[idMatch].num["id"],
                        IF nameMatch # 0 THEN GivenName(shapeNode[nameMatch].str["name"])
                        ELSE DefaultName("Shape", shapeNode[idMatch].num["id"]),
                        extractShapePosition(shapeNode),
                        extractShapeType(shapeNode))

-----------------------------------------------------------------------------
(* Shape / element tree builder (elementExtractor.ts) *)

\* texts that are empty after trim()
IsBlank(text) == text \in {"", " "}

\* /<a:t>([^<]+)<\/a:t>/g: the trimmed, non-blank texts in document order
RECURSIVE TextLoop(_, _, _)
TextLoop(text, from, acc) ==
    LET S == {i \in from..(Len(text) - 2) : /\ IsBareOpen(text[i], "a:t")
                                            /\ text[i+1].kind = "text"
                                            /\ text[i+1].text # ""
                                            /\ IsClose(text[i+2], "a:t")}
    IN  IF S = {} THEN acc
        ELSE LET i == MinOf(S)
             IN  TextLoop(text, i + 3,
                          IF IsBlank(text[i+1].text) THEN acc
                          ELSE Append(acc, text[i+1].text))

Max(a, b) == IF a > b THEN a ELSE b

extractTextFromPlaceholders(spTreeContent, els) ==
    LET textContents == TextLoop(spTreeContent, 1, <<>>)
    IN  IF Len(textContents) > 0
        THEN Append(els,
               [Element("text") EXCEPT
                  !.id = GeneratedId("text", 0),
                  !.x = Num(50), !.y = Num(50), !.width = Num(600),
                  !.height = Num(Max(50, Len(textContents) * 20)),
                  !.zIndex = 5,
                  !.paragraphs = [i \in 1..Len(textContents) |->
                                    [text |-> textContents[i],
                                     runs |-> << [text |-> textContents[i]] >>]]])
        ELSE els

\* if (element) elements.push(element)
Push(els, el) == IF el # Null THEN Append(els, el) ELSE els

\* /<p:sp(?:[^>]*)>([\s\S]*?)<\/p:sp>/g; the result is the array and shapeCount
RECURSIVE ShapeLoop(_, _, _, _, _, _)
ShapeLoop(text, from, relationships, z, els, shapeCount) ==
    LET m == Match(text, from, "p:sp", "p:sp")
    IN  IF m = NoMatch THEN [els |-> els, shapeCount |-> shapeCount]
        ELSE ShapeLoop(text, m.e + 1, relationships, z,
                       Push(els, extractShape(Whole(text, m), relationships, z, Num(1))),
                       shapeCount + 1)

\* the fallback taken when the loop matched no shape
ShapesOrText(spTreeContent, r) ==
    IF r.shapeCount = 0 /\ Includes(spTreeContent, "p:sp")
    THEN extractTextFromPlaceholders(spTreeContent, r.els)
    ELSE r.els

extractShapeElements(spTreeContent, relationships, z, els) ==
    ShapesOrText(spTreeContent, ShapeLoop(spTreeContent, 1, relationships, z, els, 0))

\* image.src = createImageDataUrl(image.src, zip), when that is defined
WithDataUrl(image, dataUrl) ==
    IF image.src # Undefined /\ dataUrl # Undefined
    THEN [image EXCEPT !.src = dataUrl] ELSE image

\* if (image) { ...; elements.push(image) }
PushImage(els, image, z) ==
    IF image # Null
    THEN Append(els, WithDataUrl(image, createImageDataUrl(image.src, z)))
    ELSE els

\* /<p:pic[^>]*>([\s\S]*?)<\/p:pic>/g
RECURSIVE PictureLoop(_, _, _, _, _)
PictureLoop(text, from, relationships, z, els) ==
    LET m == Match(text, from, "p:pic", "p:pic")
    IN  IF m = NoMatch THEN els
        ELSE PictureLoop(text, m.e + 1, relationships, z,
                         PushImage(els, extractImage(Whole(text, m), relationships, z,
                                                     Num(1)), z))

\* variant of the picture loop: a picture that extractImage rejects ends the
\* extraction of pictures
extractPictureElements_EndsAtNull(spTreeContent, relationships, z, els) ==
    LET m == Match(spTreeContent, 1, "p:pic", "p:pic")
    IN  IF m # NoMatch
           /\ extractImage(Whole(spTreeContent, m), relationships, z, Num(1)) = Null
        THEN els
        ELSE PictureLoop(spTreeContent, 1, relationships, z, els)

extractPictureElements(spTreeContent, relationships, z, els) ==
    PictureLoop(spTreeContent, 1, relationships, z, els)

\* shape.groupRelativeX = shape.x; shape.x += x  (and the same for y)
InGroup(el, x, y) ==
    [el EXCEPT !.groupRelative = <<el.x, el.y>>, !.x = Add(el.x, x), !.y = Add(el.y, y)]

\* if (shape) { ...; childElements.push(shape) }
PushChild(childElements, el, x, y) ==
    IF el # Null THEN Append(childElements, InGroup(el, x, y)) ELSE childElements

\* /<p:sp([^>]*)>([\s\S]*?)<\/p:sp>/g over the group's content
RECURSIVE ChildShapeLoop(_, _, _, _, _, _, _, _)
ChildShapeLoop(groupContent, from, relationships, z, scaleFactor, x, y, childElements) ==
    LET m == Match(groupContent, from, "p:sp", "p:sp")
    IN  IF m = NoMatch THEN childElements
        ELSE ChildShapeLoop(groupContent, m.e + 1, relationships, z, scaleFactor, x, y,
                            PushChild(childElements,
                                      extractShape(Whole(groupContent, m), relationships,
                                                   z, scaleFactor), x, y))

\* /<p:pic([^>]*)>([\s\S]*?)<\/p:pic>/g over the group's content
RECURSIVE ChildPicLoop(_, _, _, _, _, _, _, _)
ChildPicLoop(groupContent, from, relationships, z, scaleFactor, x, y, childElements) ==
    LET m == Match(groupContent, from, "p:pic", "p:pic")
    IN  IF m = NoMatch THEN childElements
        ELSE ChildPicLoop(groupContent, m.e + 1, relationships, z, scaleFactor, x, y,
                          PushChild(childElements,
                                    extractImage(Whole(groupContent, m), relationships,
                                                 z, scaleFactor), x, y))

\* Math.min(...childElements.map(el => el.zIndex || 0))
MinZIndex(childElements) ==
    MinOf({childElements[i].zIndex : i \in 1..Len(childElements)})

\* the end of an iteration: the group element is pushed when it has children,
\* otherwise the shapes and pictures of the group are extracted individually
PushGroup(groupContent, relationships, z, els, groupId, x, y, width, height, childElements) ==
    IF Len(childElements) > 0
    THEN Append(els, [Element("group") EXCEPT
                        !.id = groupId, !.x = x, !.y = y,
                        !.width = width, !.height = height,
                        !.rotation = Num(0),
                        !.children = childElements,
                        !.zIndex = MinZIndex(childElements)])
    ELSE extractPictureElements(groupContent, relationships, z,
             extractShapeElements(groupContent, relationships, z, els))

\* the iteration from the group's position on: the children are extracted
\* with the group's x and y
GroupAt(groupContent, relationships, z, els, scaleFactor, groupId, x, y, width, height) ==
    PushGroup(groupContent, relationships, z, els, groupId, x, y, width, height,
              ChildPicLoop(groupContent, 1, relationships, z, scaleFactor, x, y,
                  ChildShapeLoop(groupContent, 1, relationships, z, scaleFactor, x, y,
                                 <<>>)))

\* parseInt(emu) / 12700 * scaleFactor
GroupUnits(emu, scaleFactor) == Mul(Div(Num(emu), Num(12700)), scaleFactor)

\* the iteration from the content of <p:xfrm> on
GroupWithXfrm(groupContent, relationships, z, els, scaleFactor, groupId, xfrmContent, off, ext) ==
    IF off = 0 THEN els
    ELSE IF ext = 0 THEN els
    ELSE GroupAt(groupContent, relationships, z, els, scaleFactor, groupId,
                 GroupUnits(xfrmContent[off].num["x"], scaleFactor),
                 GroupUnits(xfrmContent[off].num["y"], scaleFactor),
                 GroupUnits(xfrmContent[ext].num["cx"], scaleFactor),
                 GroupUnits(xfrmContent[ext].num["cy"], scaleFactor))

\* the iteration from the group's content on
GroupIn(groupContent, relationships, z, els, scaleFactor, groupId, xfrmMatch) ==
    IF xfrmMatch = NoMatch THEN els
    ELSE GroupWithXfrm(groupContent, relationships, z, els, scaleFactor, groupId,
                       Inner(groupContent, xfrmMatch),
                       FirstTagWith(Inner(groupContent, xfrmMatch), "a:off", "x", "y"),
                       FirstTagWith(Inner(groupContent, xfrmMatch), "a:ext", "cx", "cy"))

\* one iteration of the loop over /<p:grpSp([^>]*)>([\s\S]*?)<\/p:grpSp>/g.
\* rotation stays 0: /rot="([^"]*)"\/?>/ needs a ">" that the captured
\* attributes ([^>]*) cannot hold
GroupStep(text, m, relationships, z, els, scaleFactor, groupCount) ==
    GroupIn(Inner(text, m), relationships, z, els, scaleFactor,
            IF "id" \in DOMAIN text[m.s].num THEN NodeId(text[m.s].num["id"])
            ELSE GeneratedId("group", groupCount),
            Match(Inner(text, m), 1, "p:xfrm", "p:xfrm"))

RECURSIVE GroupLoop(_, _, _, _, _, _, _)
GroupLoop(text, from, relationships, z, els, scaleFactor, groupCount) ==
    LET m == Match(text, from, "p:grpSp", "p:grpSp")
    IN  IF m = NoMatch THEN els
        ELSE GroupLoop(text, m.e + 1, relationships, z,
                       GroupStep(text, m, relationships, z, els, scaleFactor,
                                 groupCount + 1),
                       scaleFactor, groupCount + 1)

PlaceholderElement ==
    [Element("text") EXCEPT
        !.id = GeneratedId("placeholder", 0),
        !.x = Num(50), !.y = Num(50), !.width = Num(400), !.height = Num(100),
        !.zIndex = 1,
        !.paragraphs = << [text |-> "Slide content could not be extracted",
                           runs |-> << [text |-> "Slide content could not be extracted"] >>] >>]

\* if (elements.length === 0) elements.push(placeholderElement)
OrPlaceholder(els) == IF Len(els) = 0 THEN Append(els, PlaceholderElement) ELSE els

extractGroupElements(spTreeContent, relationships, z, els, scaleFactor) ==
    OrPlaceholder(GroupLoop(spTreeContent, 1, relationships, z, els, scaleFactor, 0))

\* (a, b) => (a.zIndex || 0) - (b.zIndex || 0)
\* variant of the comparator: descending draw order
Compare_Descending(a, b) == b.zIndex - a.zIndex

Compare(a, b) == a.zIndex - b.zIndex

\* insert el behind every element that does not sort after it
RECURSIVE InsertSorted(_, _)
InsertSorted(sorted, el) ==
    IF sorted = <<>> THEN <<el>>
    ELSE IF Compare(sorted[Len(sorted)], el) <= 0 THEN Append(sorted, el)
    ELSE Append(InsertSorted(DropLast(sorted), el), sorted[Len(sorted)])

\* Array.prototype.sort, which is stable
RECURSIVE SortElements(_)
SortElements(els) ==
    IF els = <<>> THEN <<>>
    ELSE InsertSorted(SortElements(DropLast(els)), els[Len(els)])

\* the array as pushed (before the sort) and the array returned
Sorted(els) == [pushed |-> els, returned |-> SortElements(els)]

\* the three extractions over the content of the shape tree
ExtractFrom(spTreeContent, relationships, z, scaleFactor) ==
    Sorted(extractGroupElements(spTreeContent, relationships, z,
               extractPictureElements(spTreeContent, relationships, z,
                   extractShapeElements(spTreeContent, relationships, z, <<>>)),
               scaleFactor))

\* Nothing inside the try block throws (the extractors catch their own
\* exceptions), so the catch branch is not taken
extractSlideElements(xml, relationships, z, scaleFactor) ==
    LET spTreeMatch == MatchBare(xml, 1, "p:spTree")
    IN  IF spTreeMatch = NoMatch THEN [pushed |-> <<>>, returned |-> <<>>]
        ELSE ExtractFrom(Inner(xml, spTreeMatch), relationships, z, scaleFactor)

-----------------------------------------------------------------------------
(* Slide / presentation assembler (parser.ts) *)

\* Math.round
Round(a) == IF a.d = 0 THEN a ELSE Num((2 * a.n + a.d) \div (2 * a.d))

NaN == [n |-> 0, d |-> 0]

\* the text of an attribute: it starts with the decimal digits of `value`, or
\* it does not start with a number at all (letters, or the empty text)
Digits(value) == [numeric |-> TRUE, value |-> value]
Letters == [numeric |-> FALSE, value |-> 0]

\* parseInt(text, 10) of an attribute text
parseInt10(text) == IF text.numeric THEN Num(text.value) ELSE NaN

\* the result for the width and height that were read
PropsOf(width, height, scaleFactor) ==
    [size |-> [width |-> Num(RENDER_WIDTH),
               height |-> Round(Div(Mul(height, scaleFactor), Num(12700)))],
     originalSizeEmu |-> [width |-> width, height |-> height],
     scaleFactor |-> scaleFactor]

PropsFor(width, height) ==
    PropsOf(width, height, calculateScaleFactor(width, RENDER_WIDTH))

\* xml is <<>> when the text has no sldSz element with cx and cy (also the
\* empty text of a missing part), or <<cx, cy>>: the texts of the two attributes
parsePresentationProps(xml) ==
    IF xml # <<>> THEN PropsFor(parseInt10(xml[1]), parseInt10(xml[2]))
    ELSE PropsFor(Num(DEFAULT_SLIDE_WIDTH_EMU), Num(DEFAULT_SLIDE_HEIGHT_EMU))

\* <p:sldSz cx="..." cy="..."/> with numeric attributes
SldSz(cx, cy) == << Digits(cx), Digits(cy) >>

-----------------------------------------------------------------------------
(* Slide documents and their serialisation                                 *)
(* A slide is generated as a tree of nodes and serialised to the tokens of *)
(* its XML text, which is what the extractors read.                        *)

Node(kind) ==
    [kind |-> kind, hasId |-> TRUE, id |-> 2, name |-> "", ns |-> "a",
     off |-> <<0, 0>>, ext |-> <<914400, 914400>>, embed |-> "", crop |-> FALSE,
     prst |-> "", text |-> "", children |-> <<>>]

CNvPr(n) ==
    Tok("p:cNvPr", "empty",
        IF n.hasId THEN "id" :> n.id ELSE NoNum,
        IF n.name # "" THEN "name" :> n.name ELSE NoStr)

\* <a:xfrm> (or <p:xfrm>) with its offset and extent; nothing when ns is ""
Xfrm(n) ==
    LET tag == IF n.ns = "p" THEN "p:xfrm" ELSE "a:xfrm"
    IN  IF n.ns = "" THEN <<>>
        ELSE << Open(tag),
                Tok("a:off", "empty", ("x" :> n.off[1]) @@ ("y" :> n.off[2]), NoStr),
                Tok("a:ext", "empty", ("cx" :> n.ext[1]) @@ ("cy" :> n.ext[2]), NoStr),
                Close(tag) >>

PicTokens(n) ==
    << Open("p:pic"), Open("p:nvPicPr"), CNvPr(n), Close("p:nvPicPr"),
       Open("p:blipFill"),
       Tok("a:blip", "open", NoNum, IF n.embed # "" THEN "r:embed" :> n.embed ELSE NoStr) >>
    \o (IF n.crop THEN << Tok("a:lumMod", "empty", "val" :> 120000, NoStr) >> ELSE <<>>)
    \o << Close("a:blip") >>
    \o (IF n.crop
        THEN << Tok("a:srcRect", "empty", ("l" :> 10000) @@ ("t" :> 5000), NoStr) >>
        ELSE <<>>)
    \o << Close("p:blipFill"), Open("p:spPr") >> \o Xfrm(n)
    \o << Close("p:spPr"), Close("p:pic") >>

TxBodyTokens(text) ==
    << Open("p:txBody"), Empty("a:bodyPr"), Open("a:p"), Open("a:r"), Open("a:t"),
       Text(text), Close("a:t"), Close("a:r"), Close("a:p"), Close("p:txBody") >>

ShapeTokens(n) ==
    << Open("p:sp"), Open("p:nvSpPr"), CNvPr(n), Close("p:nvSpPr"), Open("p:spPr") >>
    \o Xfrm(n)
    \o (IF n.prst # "" THEN << Tok("a:prstGeom", "open", NoNum, "prst" :> n.prst),
                               Close("a:prstGeom") >>
        ELSE <<>>)
    \o << Close("p:spPr") >>
    \o (IF n.text # "" THEN TxBodyTokens(n.text) ELSE <<>>)
    \o << Close("p:sp") >>

\* a table in a graphic frame: an unsupported kind
FrameTokens(n) ==
    << Open("p:graphicFrame"), Open("p:nvGraphicFramePr"), CNvPr(n),
       Close("p:nvGraphicFramePr") >>
    \o Xfrm([n EXCEPT !.ns = "p"])
    \o << Open("a:graphic"), Open("a:tbl"), Open("a:t"), Text(n.text), Close("a:t"),
          Close("a:tbl"), Close("a:graphic"), Close("p:graphicFrame") >>

RECURSIVE NodeTokens(_)
NodeTokens(n) ==
    CASE n.kind = "pic" -> PicTokens(n)
      [] n.kind = "sp" -> ShapeTokens(n)
      [] n.kind = "frame" -> FrameTokens(n)
      [] n.kind = "grpSp" ->
            << Open("p:grpSp"), Open("p:nvGrpSpPr"), CNvPr(n), Close("p:nvGrpSpPr"),
               Open("p:grpSpPr") >>
            \o Xfrm(n)
            \o << Close("p:grpSpPr") >>
            \o Flatten([i \in 1..Len(n.children) |-> NodeTokens(n.children[i])])
            \o << Close("p:grpSp") >>

\* the properties every shape tree starts with
TreeHeader ==
    << Open("p:nvGrpSpPr"), Tok("p:cNvPr", "empty", "id" :> 1, "name" :> ""),
       Close("p:nvGrpSpPr"), Open("p:grpSpPr"), Close("p:grpSpPr") >>

\* doc = [tree: the slide has a <p:spTree>, header: the tree starts with its
\*        own properties, nodes: the top-level nodes]
Serialize(doc) ==
    << Open("p:sld"), Open("p:cSld") >>
    \o (IF doc.tree
        THEN << Open("p:spTree") >>
             \o (IF doc.header THEN TreeHeader ELSE <<>>)
             \o Flatten([i \in 1..Len(doc.nodes) |-> NodeTokens(doc.nodes[i])])
             \o << Close("p:spTree") >>
        ELSE <<>>)
    \o << Close("p:cSld"), Close("p:sld") >>

(* The nodes slides are generated from *)

PicFound ==
    [Node("pic") EXCEPT !.id = 3, !.name = "Picture 3", !.embed = "rId1",
                        !.off = <<0, 0>>, !.crop = TRUE]
PicLocal50 ==
    [Node("pic") EXCEPT !.id = 2, !.name = "Picture 2", !.embed = "rId1",
                        !.off = <<635000, 635000>>]
PicMissing ==
    [Node("pic") EXCEPT !.id = 2, !.name = "Logo", !.embed = "rId2",
                        !.off = <<914400, 0>>, !.crop = TRUE]
PicMissingWideName ==
    [Node("pic") EXCEPT !.id = 4, !.name = "U+56FE U+7247 1", !.embed = "rId2"]
PicDangling ==
    [Node("pic") EXCEPT !.id = 5, !.name = "Picture 5", !.embed = "rId9"]
PicNoId == [Node("pic") EXCEPT !.hasId = FALSE, !.embed = "rId1"]
PicNoXfrm == [Node("pic") EXCEPT !.id = 6, !.ns = "", !.embed = "rId1"]
PicEmptyTarget == [Node("pic") EXCEPT !.id = 6, !.name = "Picture 6", !.embed = "rId3"]

ShapeEllipse ==
    [Node("sp") EXCEPT !.id = 2, !.name = "Oval 2", !.prst = "ellipse",
                       !.ext = <<914400, 914400>>]
ShapeText == [Node("sp") EXCEPT !.id = 6, !.name = "Title 6", !.text = "Hello"]

FrameTable == [Node("frame") EXCEPT !.id = 8, !.name = "Table 8", !.text = "Cell"]

\* a group at (100, 100) px of a default-width slide, children at local (0, 0)
\* and (50, 50) px; the group's transform is a <p:xfrm>
GroupOfPictures ==
    [Node("grpSp") EXCEPT !.id = 7, !.ns = "p", !.off = <<1270000, 1270000>>,
                          !.ext = <<1905000, 1905000>>,
                          !.children = <<PicFound, PicLocal50>>]
\* the same group with the transform as <a:xfrm>
GroupStandard == [GroupOfPictures EXCEPT !.ns = "a"]
GroupOfShape ==
    [Node("grpSp") EXCEPT !.id = 9, !.ns = "p", !.off = <<914400, 914400>>,
                          !.children = <<ShapeText>>]
GroupOfDangling ==
    [Node("grpSp") EXCEPT !.id = 9, !.ns = "p", !.off = <<914400, 914400>>,
                          !.children = <<PicDangling>>]
GroupNested ==
    [Node("grpSp") EXCEPT !.id = 10, !.ns = "p", !.off = <<914400, 0>>,
                          !.children = <<GroupOfPictures, PicMissing>>]

NodeSet ==
    {PicFound, PicLocal50, PicMissing, PicMissingWideName, PicDangling, PicNoId,
     PicNoXfrm, PicEmptyTarget, ShapeEllipse, ShapeText, FrameTable,
     GroupOfPictures, GroupStandard, GroupOfShape, GroupOfDangling, GroupNested}

NodeSeqs == UNION {[1..k -> NodeSet] : k \in 0..MaxNodes}

SlideDocs ==
    {[tree |-> FALSE, header |-> FALSE, nodes |-> <<>>]}
    \cup {[tree |-> TRUE, header |-> h, nodes |-> ns] : h \in BOOLEAN, ns \in NodeSeqs}

AllRelationships ==
    ("rId1" :> <<"..", "media", "image1.png">>)
        @@ ("rId2" :> <<"..", "media", "missing.png">>)
        @@ ("rId3" :> <<"", "">>)

NoRelationships == [r \in {} |-> <<>>]

SlidePart == [name |-> <<"ppt", "slides", "slide1.xml">>, bytes |-> "xml"]

ArchiveWithMedia == << SlidePart, [name |-> <<"ppt", "media", "image1.png">>, bytes |-> "png"] >>
ArchiveUpperCase == << SlidePart, [name |-> <<"ppt", "media", "IMAGE1.PNG">>, bytes |-> "png"] >>
ArchiveNoMedia == << SlidePart >>

\* the packages a slide is read from: ppt/presentation.xml (no sldSz, or the
\* declared cx and cy: 16:9, 4:3), the slide's relationships and the archive
Packages ==
    { [xml |-> <<>>, rels |-> AllRelationships, zip |-> ArchiveWithMedia],
      [xml |-> SldSz(9144000, 6858000), rels |-> AllRelationships, zip |-> ArchiveWithMedia],
      [xml |-> SldSz(12192000, 6858000), rels |-> AllRelationships, zip |-> ArchiveUpperCase],
      [xml |-> SldSz(9144000, 6858000), rels |-> AllRelationships, zip |-> ArchiveNoMedia],
      [xml |-> <<>>, rels |-> NoRelationships, zip |-> ArchiveWithMedia] }

-----------------------------------------------------------------------------
(* Values of the variables a specification does not use *)

IdleSlide ==
    /\ presentationXml = <<>> /\ props = <<>> /\ slideXml = <<>>
    /\ slideRels = <<>> /\ zip = <<>> /\ extracted = <<>> /\ elements = <<>>

IdleResolve == target = <<>> /\ basePath = <<>> /\ resolved = <<>>

IdlePkg == pkgFiles = <<>> /\ slideFiles = <<>> /\ slideIndex = 0 /\ slides = <<>>

IdleFill == xmlContent = <<>> /\ color = <<>> /\ fillNode = <<>> /\ fill = <<>>

IdleText == paragraph = <<>> /\ textRuns = <<>> /\ textNode = <<>> /\ textElement = <<>>

IdleUnits == lengthEmu = 0 /\ viaPoints = <<>> /\ direct = <<>>

IdleBatch ==
    /\ uploaded = <<>> /\ fileIndex = 0 /\ parsedIndex = 0
    /\ currentFileTemplate = "" /\ allSlides = <<>> /\ parserCalls = <<>>

IdleLookup == lookupPath = <<>> /\ lookupZip = <<>> /\ lookupResult = 0

IdleTemplate == templateSlide = <<>> /\ appliedOnce = <<>> /\ appliedTwice = <<>>

IdleConvert == engineElements = <<>> /\ slideElements = <<>>

IdleEditor == editorSlides = <<>> /\ currentSlideId = "" /\ clock = 0

IdleApp == IdleLookup /\ IdleTemplate /\ IdleConvert /\ IdleEditor

IdleAux == IdleFill /\ IdleText /\ IdleUnits /\ IdleBatch /\ IdleApp

IdleCore == IdleSlide /\ IdleResolve /\ IdlePkg

-----------------------------------------------------------------------------
(* SpecSlide: parsePresentationProps, then extractSlideElements on one slide *)

InitSlide ==
    /\ pc = "start"
    /\ \E p \in Packages :
         /\ presentationXml = p.xml
         /\ slideRels = p.rels
         /\ zip = p.zip
    /\ props = <<>>
    /\ slideXml \in SlideDocs
    /\ extracted = <<>>
    /\ elements = <<>>
    /\ IdleResolve /\ IdlePkg /\ IdleAux

ParsePresentationProps ==
    /\ pc = "start"
    /\ props' = parsePresentationProps(presentationXml)
    /\ pc' = "props"
    /\ UNCHANGED <<presentationXml, slideXml, slideRels, zip, extracted, elements,
                   resolveVars, pkgVars, auxVars>>

ExtractSlideElements ==
    /\ pc = "props"
    /\ \E r \in {extractSlideElements(Serialize(slideXml), slideRels, zip,
                                      props.scaleFactor)} :
          /\ extracted' = r.pushed
          /\ elements' = r.returned
    /\ pc' = "done"
    /\ UNCHANGED <<presentationXml, props, slideXml, slideRels, zip, resolveVars, pkgVars, auxVars>>

NextSlide == ParsePresentationProps \/ ExtractSlideElements

SpecSlide == InitSlide /\ [][NextSlide]_vars

(* Properties of SpecSlide *)

Done == pc = "done"

Count(seq, P(_)) == Cardinality({i \in 1..Len(seq) : P(seq[i])})

\* the nodes of a document at every depth, in document order
RECURSIVE AllNodes(_)
AllNodes(nodes) ==
    Flatten([i \in 1..Len(nodes) |-> <<nodes[i]>> \o AllNodes(nodes[i].children)])

\* the elements of a list with the children of its groups
AllElements(els) ==
    Flatten([i \in 1..Len(els) |-> <<els[i]>> \o els[i].children])

\* the pixel value the specification gives for a native length, with the scale
\* factor of the package
Px(emu) == emuToPixels(Num(emu), props.scaleFactor)

\* a plain shape that carries a numeric id and a transform with offset and extent
WellFormedShape(n) == n.kind = "sp" /\ n.hasId /\ n.ns = "a"

\* a picture with an id, a transform and an embed id that the relationship map
\* resolves to a non-empty path
ResolvablePicture(n) ==
    /\ n.kind = "pic" /\ n.hasId /\ n.ns = "a"
    /\ n.embed \in DOMAIN slideRels
    /\ resolveRelationshipTarget(slideRels[n.embed], <<"ppt", "slides">>) # EmptyString

\* the backing media of a resolvable picture is in the archive
MediaFound(n) ==
    findImageInZip(
        PathStr(resolveRelationshipTarget(slideRels[n.embed], <<"ppt", "slides">>)),
        zip) # 0

\* C1: every top-level plain shape with a numeric id and a transform with an
\* offset and an extent yields exactly one Shape element, with its geometry
\* preset (default 'rect') and, when it has a paragraph, its embedded Text
C1_PlainShapeYieldsOneShape ==
    (Done /\ slideXml.tree) =>
        \A i \in 1..Len(slideXml.nodes) :
            LET n == slideXml.nodes[i]
                same(m) == WellFormedShape(m) /\ m.id = n.id
                isShapeOfN(e) == e.type = "shape" /\ e.id = NodeId(n.id)
            IN  WellFormedShape(n) =>
                  /\ Count(elements, isShapeOfN) = Count(slideXml.nodes, same)
                  /\ \A j \in 1..Len(elements) :
                        isShapeOfN(elements[j]) =>
                            elements[j].shapeType \in {m.prst : m \in {slideXml.nodes[k] :
                                                          k \in 1..Len(slideXml.nodes)}}
                                                      \cup {"rect"}

\* C2: the number of extracted shape and image elements (top level and group
\* children) equals the number of plain-shape and picture nodes of the
\* container, at every depth, when each of these nodes is well formed
C2_ElementCountEqualsNodeCount ==
    LET leaves == AllNodes(slideXml.nodes)
        isLeaf(n) == n.kind \in {"sp", "pic"}
        extractable(n) == WellFormedShape(n)
                            \/ (ResolvablePicture(n) /\ n.name \notin NonLatin1Names)
        isLeafElement(e) == e.type \in {"shape", "image"}
    IN  (Done /\ slideXml.tree
           /\ \A i \in 1..Len(leaves) : isLeaf(leaves[i]) => extractable(leaves[i]))
        => Count(AllElements(elements), isLeafElement) = Count(leaves, isLeaf)

\* C3: the returned list is never empty, and when no shape, picture or group
\* element was produced it holds exactly one Text element
C3_NeverEmpty ==
    Done =>
        /\ Len(elements) >= 1
        /\ (\A i \in 1..Len(elements) : elements[i].type \notin {"shape", "image", "group"})
              => (Len(elements) = 1 /\ elements[1].type = "text")

\* C4: for every child of every group, child.x = group.x + child.groupRelativeX
\* (and the same for y), the group's position and the child's local position
\* both being the pixel values of their native offsets in one coordinate space
C4_ChildAbsoluteIsGroupPlusLocal ==
    Done =>
        \A i \in 1..Len(elements) :
            LET g == elements[i]
                nodes == AllNodes(slideXml.nodes)
            IN  g.type = "group" =>
                  /\ \E k \in 1..Len(nodes) :
                        /\ nodes[k].kind = "grpSp"
                        /\ g.x = Px(nodes[k].off[1]) /\ g.y = Px(nodes[k].off[2])
                  /\ \A j \in 1..Len(g.children) :
                        LET c == g.children[j]
                        IN  /\ c.x = Add(g.x, c.groupRelative[1])
                            /\ c.y = Add(g.y, c.groupRelative[2])
                            /\ \E k \in 1..Len(nodes) :
                                  /\ nodes[k].kind \in {"sp", "pic"}
                                  /\ nodes[k].hasId /\ NodeId(nodes[k].id) = c.id
                                  /\ c.groupRelative = <<Px(nodes[k].off[1]),
                                                         Px(nodes[k].off[2])>>

\* C5: every shape, picture and group size, and every top-level position, is
\* (native / 914400) * 96 * S with the one scale factor S of the package
C5_OneScaleFactorForEveryKind ==
    Done =>
        LET nodes == AllNodes(slideXml.nodes)
        IN  /\ \A i \in 1..Len(elements) :
                LET e == elements[i]
                IN  e.type \in {"shape", "image", "group"} =>
                      \E k \in 1..Len(nodes) :
                          /\ e.x = Px(nodes[k].off[1]) /\ e.y = Px(nodes[k].off[2])
                          /\ e.width = Px(nodes[k].ext[1])
                          /\ e.height = Px(nodes[k].ext[2])
            /\ \A i \in 1..Len(AllElements(elements)) :
                LET e == AllElements(elements)[i]
                IN  e.type \in {"shape", "image"} =>
                      \E k \in 1..Len(nodes) :
                          /\ e.width = Px(nodes[k].ext[1])
                          /\ e.height = Px(nodes[k].ext[2])

\* the elements of a list that carry the draw-order key k, in list order
WithKey(els, k) == SelectSeq(els, LAMBDA e : e.zIndex = k)

C8_MissingMediaYieldsPlaceholder ==
    (Done /\ slideXml.tree) =>
        \A i \in 1..Len(slideXml.nodes) :
            LET n == slideXml.nodes[i]
            IN  (ResolvablePicture(n) /\ ~MediaFound(n)) =>
                  \E j \in 1..Len(elements) :
                      /\ elements[j].type = "image"
                      /\ elements[j].id = NodeId(n.id)
                      /\ elements[j].isPlaceholder
                      /\ elements[j].src.kind = "data"
                      /\ elements[j].src.payload # <<>>
                      /\ elements[j].imageData =
                            extractImage(PicTokens(n), slideRels,
                                         <<[name |-> resolveRelationshipTarget(
                                                        slideRels[n.embed], <<"ppt", "slides">>),
                                            bytes |-> "png"]>>, Num(1)).imageData

\* a picture whose embed id is not in the relationship map
Dangling(n) == n.kind = "pic" /\ n.embed \notin DOMAIN slideRels

\* C9: a picture whose embed id is absent from the relationship map yields no
\* element (it is skipped), and every picture of the slide that extractImage
\* accepts is still in the returned list, whatever precedes or follows it
C9_DanglingPictureNeverAborts ==
    (Done /\ slideXml.tree) =>
        LET nodes == AllNodes(slideXml.nodes)
        IN  (\E d \in 1..Len(nodes) : Dangling(nodes[d])) =>
              /\ \A k \in 1..Len(nodes) :
                    (Dangling(nodes[k]) /\ nodes[k].hasId) =>
                        \A j \in 1..Len(elements) :
                            (elements[j].type = "image" /\ elements[j].id = NodeId(nodes[k].id))
                                => \E m \in 1..Len(nodes) :
                                      /\ ~Dangling(nodes[m]) /\ nodes[m].kind = "pic"
                                      /\ nodes[m].hasId /\ nodes[m].id = nodes[k].id
              /\ \A k \in 1..Len(nodes) :
                    (nodes[k].kind = "pic"
                       /\ extractImage(PicTokens(nodes[k]), slideRels, zip, Num(1)) # Null)
                    => \E j \in 1..Len(elements) :
                          /\ elements[j].type = "image"
                          /\ elements[j].id = NodeId(nodes[k].id)
              /\ Len(elements) >= 1

\* C9 witness: a dangling picture precedes a picture that is extracted
C9_Witness ==
    /\ Done /\ slideXml.tree
    /\ Len(slideXml.nodes) = 2
    /\ Dangling(slideXml.nodes[1])
    /\ slideXml.nodes[2].kind = "pic"
    /\ \E j \in 1..Len(elements) :
          elements[j].type = "image" /\ elements[j].id = NodeId(slideXml.nodes[2].id)

-----------------------------------------------------------------------------
(* SpecPkg: parsePPTX down to parseAllSlides, over the parts of an archive. *)
(* A part is [stem, digits, text]: its name is 'ppt/slides/' + stem +       *)
(* digits + '.xml', its text a slide document or the empty string (NoText). *)

NoText == <<>>

SlideText == [tree |-> TRUE, header |-> TRUE, nodes |-> <<PicFound>>]

PartNames ==
    { [stem |-> "slide", digits |-> <<1>>], [stem |-> "slide", digits |-> <<2>>],
      [stem |-> "slide", digits |-> <<1, 0>>], [stem |-> "chart", digits |-> <<1>>] }

Parts == {[stem |-> n.stem, digits |-> n.digits, text |-> t] :
              n \in PartNames, t \in {NoText, SlideText}}

\* archives: up to MaxSlideParts parts with distinct names, in any key order
PkgArchives ==
    UNION {{f \in [1..k -> Parts] :
               \A a \in 1..k : \A b \in 1..k :
                   (f[a].stem = f[b].stem /\ f[a].digits = f[b].digits) => a = b}
           : k \in 0..MaxSlideParts}

\* path.match(/^ppt\/slides\/slide[0-9]+\.xml$/)
IsSlideFile(part) == part.stem = "slide" /\ part.digits # <<>>

\* the UTF-16 code units of digits + '.', where two slide file names first differ
CodeUnits(digits) ==
    [k \in 1..(Len(digits) + 1) |-> IF k <= Len(digits) THEN 48 + digits[k] ELSE 46]

\* a < b in the order of the default sort: by UTF-16 code units
RECURSIVE CodeUnitsLess(_, _)
CodeUnitsLess(a, b) ==
    IF a = <<>> THEN b # <<>>
    ELSE IF b = <<>> THEN FALSE
    ELSE IF Head(a) # Head(b) THEN Head(a) < Head(b)
    ELSE CodeUnitsLess(Tail(a), Tail(b))

RECURSIVE InsertFile(_, _)
InsertFile(sorted, file) ==
    IF sorted = <<>> THEN <<file>>
    ELSE IF ~CodeUnitsLess(CodeUnits(file.digits), CodeUnits(sorted[Len(sorted)].digits))
    THEN Append(sorted, file)
    ELSE Append(InsertFile(DropLast(sorted), file), sorted[Len(sorted)])

\* Array.prototype.sort() without a comparator
RECURSIVE SortFiles(_)
SortFiles(files) ==
    IF files = <<>> THEN <<>>
    ELSE InsertFile(SortFiles(DropLast(files)), files[Len(files)])

\* parseInt(digits, 10)
RECURSIVE parseInt(_)
parseInt(digits) ==
    IF digits = <<>> THEN 0
    ELSE 10 * parseInt(DropLast(digits)) + digits[Len(digits)]

\* relationships[slideId] || {}: the archive has relationships for slide 1
RelationshipsOf(slideNum) == IF slideNum = 1 THEN AllRelationships ELSE NoRelationships

InitPkg ==
    /\ pc = "start"
    /\ presentationXml \in {<<>>, SldSz(9144000, 6858000)}
    /\ props = <<>>
    /\ zip = ArchiveWithMedia
    /\ pkgFiles \in PkgArchives
    /\ slideFiles = <<>> /\ slideIndex = 0 /\ slides = <<>>
    /\ slideXml = <<>> /\ slideRels = <<>> /\ extracted = <<>> /\ elements = <<>>
    /\ IdleResolve /\ IdleAux

\* Object.keys(zip.files).filter(...).sort()
ListSlideFiles ==
    /\ pc = "props"
    /\ slideFiles' = SortFiles(SelectSeq(pkgFiles, IsSlideFile))
    /\ slideIndex' = 1
    /\ pc' = "loop"
    /\ UNCHANGED <<pkgFiles, slides, slideVars, resolveVars, auxVars>>

\* one iteration of the loop over slideFiles
ParseSlide ==
    /\ pc = "loop"
    /\ slideIndex <= Len(slideFiles)
    /\ LET file == slideFiles[slideIndex]
           slideNum == parseInt(file.digits)
       IN  slides' =
             IF file.text = NoText THEN slides
             ELSE Append(slides,
                    [id |-> slideNum, number |-> slideNum,
                     elements |-> extractSlideElements(Serialize(file.text),
                                      RelationshipsOf(slideNum), zip,
                                      props.scaleFactor).returned,
                     size |-> props.size])
    /\ slideIndex' = slideIndex + 1
    /\ UNCHANGED <<pc, pkgFiles, slideFiles, slideVars, resolveVars, auxVars>>

\* return slides
ReturnSlides ==
    /\ pc = "loop"
    /\ slideIndex > Len(slideFiles)
    /\ pc' = "returned"
    /\ UNCHANGED <<pkgVars, slideVars, resolveVars, auxVars>>

NextPkg == ParsePresentationProps \/ ListSlideFiles \/ ParseSlide \/ ReturnSlides

SpecPkg == InitPkg /\ [][NextPkg]_vars

\* C7: the returned slides are in ascending order of the integer embedded in
\* their file names (slide2 before slide10)
C7_SlidesInNumericOrder ==
    pc = "returned" =>
        \A a \in 1..Len(slides) : \A b \in 1..Len(slides) :
            a < b => slides[a].number < slides[b].number

-----------------------------------------------------------------------------
(* SpecResolve: resolveRelationshipTarget applied to bounded targets *)

TargetSegments == {"", "..", ".", "media", "image1.png"}

Targets == UNION {[1..k -> TargetSegments] : k \in 1..MaxTargetLen}

BasePaths == {<<"ppt", "slides">>, <<"ppt", "slides", "_rels">>, <<"ppt">>}

InitResolve ==
    /\ pc = "start"
    /\ target \in Targets
    /\ basePath \in BasePaths
    /\ resolved = <<>>
    /\ IdleSlide /\ IdlePkg /\ IdleAux

Resolve ==
    /\ pc = "start"
    /\ resolved' = resolveRelationshipTarget(target, basePath)
    /\ pc' = "resolved"
    /\ UNCHANGED <<target, basePath, slideVars, pkgVars, auxVars>>

NextResolve == Resolve

SpecResolve == InitResolve /\ [][NextResolve]_vars

\* the number of leading parent-directory markers of a target
RECURSIVE LeadingDotDots(_)
LeadingDotDots(s) ==
    IF Len(s) >= 2 /\ s[1] = ".." THEN 1 + LeadingDotDots(Tail(s)) ELSE 0

\* the resolution the specification describes, the base being a directory
SpecifiedResolution(tgt, base) ==
    IF StartsWithSlash(tgt) THEN Tail(tgt)
    ELSE LET k == LeadingDotDots(tgt)
             up == IF k >= Len(base) THEN <<>> ELSE SubSeq(base, 1, Len(base) - k)
         IN  up \o SubSeq(tgt, k + 1, Len(tgt))

\* C10: a target with a leading slash resolves to the target without the slash,
\* a target with k leading '../' markers to the base directory walked up k levels
\* followed by the remainder, any other target to baseDirectory + '/' + target;
\* with the base 'ppt/slides', '../media/image1.png' gives 'ppt/media/image1.png'
C10_ResolvesAgainstBaseDirectory ==
    pc = "resolved" => resolved = SpecifiedResolution(target, basePath)

-----------------------------------------------------------------------------
(* Colours (shapeExtractor.ts)                                             *)

NoColor == [type |-> "undefined", value |-> ""]

Color(type, value) == [type |-> type, value |-> value]

\* /<tag[^>]*attr="([^"]*)"/: the first tag of that name carrying the
\* attribute, 0 when there is none
FirstTagWithStr(text, tag, attr) ==
    LET S == {i \in 1..Len(text) : StartsTag(text[i], tag) /\ attr \in DOMAIN text[i].str}
    IN  IF S = {} THEN 0 ELSE MinOf(S)

\* the system-colour branch: lastClr is searched in the whole fragment
SystemColor(xml, sys, lastClr) ==
    IF lastClr # 0 THEN Color("rgb", "#" \o xml[lastClr].str["lastClr"])
    ELSE Color("system", xml[sys].str["val"])

ColorAt(xml, srgb, scheme, sys) ==
    IF srgb # 0 THEN Color("rgb", "#" \o xml[srgb].str["val"])
    ELSE IF scheme # 0 THEN Color("scheme", xml[scheme].str["val"])
    ELSE IF sys # 0 THEN SystemColor(xml, sys, FirstStr(xml, "lastClr"))
    ELSE NoColor

extractColor(xml) ==
    ColorAt(xml, FirstTagWithStr(xml, "a:srgbClr", "val"),
                 FirstTagWithStr(xml, "a:schemeClr", "val"),
                 FirstTagWithStr(xml, "a:sysClr", "val"))

-----------------------------------------------------------------------------
(* SpecColor: extractColor on one fragment                                 *)

MaxMarkers == 3        \* colour markers of a generated fragment

ColorMarkers ==
    { Tok("a:srgbClr", "empty", NoNum, "val" :> "FF0000"),
      Tok("a:schemeClr", "empty", NoNum, "val" :> "accent1"),
      Tok("a:sysClr", "empty", NoNum, "val" :> "windowText"),
      Tok("a:sysClr", "empty", NoNum, ("val" :> "window") @@ ("lastClr" :> "FFFFFF")),
      Tok("a:prstClr", "empty", NoNum, "val" :> "red") }

ColorFragments == UNION { [1..n -> ColorMarkers] : n \in 0..MaxMarkers }

InitColor ==
    /\ pc = "start"
    /\ xmlContent \in ColorFragments
    /\ color = <<>>
    /\ fillNode = <<>> /\ fill = <<>>
    /\ IdleCore /\ IdleApp /\ IdleText /\ IdleUnits /\ IdleBatch

ExtractColor ==
    /\ pc = "start"
    /\ color' = extractColor(xmlContent)
    /\ pc' = "done"
    /\ UNCHANGED <<xmlContent, fillNode, fill, coreVars, appVars, textVars, unitVars, batchVars>>

NextColor == ExtractColor

SpecColor == InitColor /\ [][NextColor]_vars

\* the first marker of the given tag in the fragment, 0 when there is none
FirstMarker(xml, tag) ==
    LET S == {i \in 1..Len(xml) : xml[i].tag = tag}
    IN  IF S = {} THEN 0 ELSE MinOf(S)

\* the colour the specification gives for the markers found
SpecifiedColor(xml, srgb, scheme, sys, prst) ==
    IF srgb # 0 THEN Color("rgb", "#" \o xml[srgb].str["val"])
    ELSE IF scheme # 0 THEN Color("scheme", xml[scheme].str["val"])
    ELSE IF sys # 0
         THEN IF "lastClr" \in DOMAIN xml[sys].str
              THEN Color("rgb", "#" \o xml[sys].str["lastClr"])
              ELSE Color("system", xml[sys].str["val"])
    ELSE IF prst # 0 THEN Color("preset", xml[prst].str["val"])
    ELSE NoColor

\* C11: the colour of a fragment is the explicit RGB if one is present, else the
\* scheme reference, else the system colour (RGB of its lastClr if it has one,
\* otherwise its named value), else the preset colour; a fragment holding only a
\* preset colour yields a preset colour, not "no colour"
C11_ColourPrecedence ==
    pc = "done" /\ xmlContent # <<>>
        => color = SpecifiedColor(xmlContent, FirstMarker(xmlContent, "a:srgbClr"),
                                  FirstMarker(xmlContent, "a:schemeClr"),
                                  FirstMarker(xmlContent, "a:sysClr"),
                                  FirstMarker(xmlContent, "a:prstClr"))

-----------------------------------------------------------------------------
(* Fills (shapeExtractor.ts)                                               *)

White == Color("rgb", "#FFFFFF")
Black == Color("rgb", "#000000")

NoneFill == [type |-> "none"]
SolidFill(c) == [type |-> "solid", color |-> c]
DefaultFill == SolidFill(White)

\* shapeNode.includes('<a:noFill/>')
IncludesNoFill(text) ==
    \E i \in 1..Len(text) :
        text[i].tag = "a:noFill" /\ text[i].kind = "empty"
            /\ DOMAIN text[i].num = {} /\ DOMAIN text[i].str = {}

\* /<a:gs pos="([^"]*)"[^>]*>([\s\S]*?)<\/a:gs>/g from position `from`
MatchStop(text, from) ==
    LET opens == {i \in from..Len(text) :
                      /\ text[i].tag = "a:gs" /\ text[i].kind = "open"
                      /\ "pos" \in DOMAIN text[i].num
                      /\ \E j \in (i+1)..Len(text) : IsClose(text[j], "a:gs")}
    IN  IF opens = {} THEN NoMatch
        ELSE LET st == MinOf(opens)
             IN  [s |-> st, e |-> MinOf({j \in (st+1)..Len(text) : IsClose(text[j], "a:gs")})]

\* position = parseInt(pos) / 1000; the stop is pushed when it has a colour
PushStop(stops, pos, c) ==
    IF c # NoColor THEN Append(stops, [position |-> Div(Num(pos), Num(1000)), color |-> c])
    ELSE stops

RECURSIVE StopLoop(_, _, _)
StopLoop(stopsContent, from, stops) ==
    IF MatchStop(stopsContent, from) = NoMatch THEN stops
    ELSE StopLoop(stopsContent, MatchStop(stopsContent, from).e + 1,
                  PushStop(stops, stopsContent[MatchStop(stopsContent, from).s].num["pos"],
                           extractColor(Inner(stopsContent, MatchStop(stopsContent, from)))))

\* the stops of <a:gsLst>, none when the list is missing
GradientStops(gradContent, gsLst) ==
    IF gsLst = NoMatch THEN <<>> ELSE StopLoop(Inner(gradContent, gsLst), 1, <<>>)

\* the two stops put in place of an empty stop list
OrDefaultStops(stops) ==
    IF Len(stops) = 0
    THEN << [position |-> Num(0), color |-> White], [position |-> Num(100), color |-> Black] >>
    ELSE stops

\* path of a radial gradient, or the angle (rot / 60000) of a linear one
GradientPath(gradContent, path) ==
    IF path # 0 /\ gradContent[path].str["path"] \in {"circle", "rect", "shape"}
    THEN gradContent[path].str["path"] ELSE ""

GradientAngle(gradTag, path) ==
    IF path = 0 /\ "rot" \in DOMAIN gradTag.num
    THEN Div(Num(gradTag.num["rot"]), Num(60000)) ELSE Num(0)

GradientFill(gradTag, gradContent, path) ==
    [type |-> "gradient",
     stops |-> OrDefaultStops(GradientStops(gradContent, MatchBare(gradContent, 1, "a:gsLst"))),
     angle |-> GradientAngle(gradTag, path),
     path |-> GradientPath(gradContent, path)]

\* /<a:pattFill[^>]*prst="([^"]*)"[^>]*>([\s\S]*?)<\/a:pattFill>/
MatchPattern(text) ==
    LET opens == {i \in 1..Len(text) :
                      /\ StartsTag(text[i], "a:pattFill") /\ text[i].kind = "open"
                      /\ "prst" \in DOMAIN text[i].str
                      /\ \E j \in (i+1)..Len(text) : IsClose(text[j], "a:pattFill")}
    IN  IF opens = {} THEN NoMatch
        ELSE LET st == MinOf(opens)
             IN  [s |-> st, e |-> MinOf({j \in (st+1)..Len(text) : IsClose(text[j], "a:pattFill")})]

\* extractColor(match[1]) || fallback, the fallback also when there is no match
ColorOr(content, m, fallback) ==
    IF m = NoMatch \/ extractColor(Inner(content, m)) = NoColor THEN fallback
    ELSE extractColor(Inner(content, m))

PatternFill(preset, content) ==
    [type |-> "pattern", preset |-> preset,
     foreColor |-> ColorOr(content, MatchBare(content, 1, "a:fgClr"), Black),
     backColor |-> ColorOr(content, MatchBare(content, 1, "a:bgClr"), White)]

BlipFill(content, embed) ==
    [type |-> "blip",
     blip |-> IF embed # 0 THEN content[embed].str["r:embed"] ELSE "image",
     stretch |-> \E i \in 1..Len(content) : IsBareOpen(content[i], "a:stretch"),
     tile |-> Includes(content, "a:tile")]

\* the pattern and image-backed branches, then the default
PatternOrLater(shapeNode, patt, blip) ==
    IF patt # NoMatch
    THEN PatternFill(shapeNode[patt.s].str["prst"], Inner(shapeNode, patt))
    ELSE IF blip # NoMatch
    THEN BlipFill(Inner(shapeNode, blip), FirstStr(Inner(shapeNode, blip), "r:embed"))
    ELSE DefaultFill

\* the gradient branch and what follows it
GradientOrLater(shapeNode, grad) ==
    IF grad # NoMatch
    THEN GradientFill(shapeNode[grad.s], Inner(shapeNode, grad),
                      FirstTagWithStr(Inner(shapeNode, grad), "a:path", "path"))
    ELSE PatternOrLater(shapeNode, MatchPattern(shapeNode),
                        Match(shapeNode, 1, "a:blipFill", "a:blipFill"))

\* the solid branch: taken only when the matched fill has a colour
SolidOrLater(shapeNode, solid) ==
    IF solid # NoMatch /\ extractColor(Inner(shapeNode, solid)) # NoColor
    THEN SolidFill(extractColor(Inner(shapeNode, solid)))
    ELSE GradientOrLater(shapeNode, Match(shapeNode, 1, "a:gradFill", "a:gradFill"))

extractFill(shapeNode) ==
    IF IncludesNoFill(shapeNode) THEN NoneFill
    ELSE SolidOrLater(shapeNode, MatchBare(shapeNode, 1, "a:solidFill"))

-----------------------------------------------------------------------------
(* SpecFill: extractFill on one shape node                                 *)

MaxStops == 2          \* stops of a generated gradient

Srgb(hex) == Tok("a:srgbClr", "empty", NoNum, "val" :> hex)
PrstClr(name) == Tok("a:prstClr", "empty", NoNum, "val" :> name)

NoFillMarker == << Empty("a:noFill") >>
SolidMarker(c) == << Open("a:solidFill"), c, Close("a:solidFill") >>
StopMarker(pos, c) == << Tok("a:gs", "open", "pos" :> pos, NoStr), c, Close("a:gs") >>
GradMarker(stops) ==
    << Tok("a:gradFill", "open", "rot" :> 5400000, NoStr), Open("a:gsLst") >>
        \o Flatten(stops) \o << Close("a:gsLst"), Close("a:gradFill") >>
PattMarker ==
    << Tok("a:pattFill", "open", NoNum, "prst" :> "pct5"),
       Open("a:fgClr"), Srgb("00FF00"), Close("a:fgClr"), Close("a:pattFill") >>
BlipMarker ==
    << Open("a:blipFill"), Tok("a:blip", "empty", NoNum, "r:embed" :> "rId1"),
       Open("a:stretch"), Empty("a:fillRect"), Close("a:stretch"), Close("a:blipFill") >>

StopMarkers ==
    { StopMarker(0, Srgb("FF0000")), StopMarker(100000, Srgb("0000FF")),
      StopMarker(50000, PrstClr("red")) }

GradMarkers == { GradMarker(st) : st \in UNION { [1..n -> StopMarkers] : n \in 0..MaxStops } }

SimpleMarkers ==
    { NoFillMarker, SolidMarker(Srgb("FF0000")), PattMarker, BlipMarker,
      GradMarker(<< StopMarker(0, Srgb("FF0000")), StopMarker(100000, Srgb("0000FF")) >>) }

\* the fill markers of a shape: none, one, or two of the simple ones
FillMarkers ==
    {<<>>, SolidMarker(PrstClr("red"))} \cup SimpleMarkers \cup GradMarkers
        \cup { a \o b : a \in SimpleMarkers, b \in SimpleMarkers }

\* the outline of a shape: none, one without fill, one with a solid colour
Outlines ==
    { <<>>,
      << Open("a:ln"), Empty("a:noFill"), Close("a:ln") >>,
      << Tok("a:ln", "open", "w" :> 12700, NoStr) >> \o SolidMarker(Srgb("333333"))
          \o << Close("a:ln") >> }

FillShapes ==
    { << Tok("p:sp", "open", NoNum, NoStr), Open("p:spPr") >> \o f \o o
          \o << Close("p:spPr"), Close("p:sp") >> : f \in FillMarkers, o \in Outlines }

InitFill ==
    /\ pc = "start"
    /\ fillNode \in FillShapes
    /\ fill = <<>>
    /\ xmlContent = <<>> /\ color = <<>>
    /\ IdleCore /\ IdleApp /\ IdleText /\ IdleUnits /\ IdleBatch

ExtractFill ==
    /\ pc = "start"
    /\ fill' = extractFill(fillNode)
    /\ pc' = "done"
    /\ UNCHANGED <<xmlContent, color, fillNode, coreVars, appVars, textVars, unitVars, batchVars>>

NextFill == ExtractFill

SpecFill == InitFill /\ [][NextFill]_vars

\* the tokens of the shape that are not inside its outline element <a:ln>
RECURSIVE OutsideOutline(_, _)
OutsideOutline(text, inLn) ==
    IF text = <<>> THEN <<>>
    ELSE IF StartsTag(Head(text), "a:ln") THEN OutsideOutline(Tail(text), Head(text).kind = "open")
    ELSE IF IsClose(Head(text), "a:ln") THEN OutsideOutline(Tail(text), FALSE)
    ELSE IF inLn THEN OutsideOutline(Tail(text), inLn)
    ELSE << Head(text) >> \o OutsideOutline(Tail(text), inLn)

\* the kind of fill the specified priority order gives for the shape's own markers
SpecifiedFillType(own) ==
    IF Includes(own, "a:noFill") THEN "none"
    ELSE IF Includes(own, "a:solidFill") THEN "solid"
    ELSE IF Includes(own, "a:gradFill") THEN "gradient"
    ELSE IF Includes(own, "a:pattFill") THEN "pattern"
    ELSE IF Includes(own, "a:blipFill") THEN "blip"
    ELSE "solid"

HasFillMarker(own) ==
    \E t \in {"a:noFill", "a:solidFill", "a:gradFill", "a:pattFill", "a:blipFill"} :
        Includes(own, t)

\* C12: the fill is decided by the shape's own markers in the order no fill,
\* solid, gradient, pattern, image-backed; a shape without any fill marker gets
\* opaque white solid; a no-fill marker on the outline alone changes nothing
C12_FillPriority ==
    pc = "done" =>
        /\ fill.type = SpecifiedFillType(OutsideOutline(fillNode, FALSE))
        /\ ~HasFillMarker(OutsideOutline(fillNode, FALSE)) => fill = DefaultFill

\* C13: a gradient fill has at least two stops, each at a position in 0..100;
\* fewer than two extracted stops are replaced by white at 0 and black at 100
C13_GradientHasTwoStops ==
    pc = "done" /\ fill.type = "gradient" =>
        /\ Len(fill.stops) >= 2
        /\ \A i \in 1..Len(fill.stops) :
              /\ IsFinite(fill.stops[i].position)
              /\ ~Less(fill.stops[i].position, Num(0))
              /\ ~Less(Num(100), fill.stops[i].position)

-----------------------------------------------------------------------------
(* Text runs (textExtractor.ts)                                            *)

\* the properties a run carries: a function from the names that are set
NoProps == [a \in {} |-> FALSE]

Run(text, runProps) == [text |-> text, props |-> runProps]

\* the characters of the text nodes of a fragment
RECURSIVE TextOf(_)
TextOf(content) ==
    IF content = <<>> THEN "" ELSE Head(content).text \o TextOf(Tail(content))

\* attrsStr.includes('name="value"')
AttrIs(tag, name, values) == name \in DOMAIN tag.str /\ tag.str[name] \in values

\* uMatch && uMatch[1] !== 'none'
Underline(tag) ==
    IF "u" \notin DOMAIN tag.str THEN "null"
    ELSE IF tag.str["u"] # "none" THEN "true" ELSE "false"

Baseline(tag) ==
    IF "baseline" \notin DOMAIN tag.num THEN NoProps
    ELSE IF tag.num["baseline"] = 30000 THEN "baseline" :> "superscript"
    ELSE IF tag.num["baseline"] = -25000 THEN "baseline" :> "subscript"
    ELSE NoProps

Caps(tag) ==
    IF AttrIs(tag, "cap", {"all"}) THEN "caps" :> "all"
    ELSE IF AttrIs(tag, "cap", {"small"}) THEN "caps" :> "small"
    ELSE NoProps

\* parseInt(value, 10) / 100 when the attribute is present
Hundredths(tag, attr, prop) ==
    IF attr \in DOMAIN tag.num THEN prop :> Div(Num(tag.num[attr]), Num(100)) ELSE NoProps

\* the attributes are those of the tag they were cut from
extractRunPropertiesFromAttrs(tag) ==
    Hundredths(tag, "sz", "size")
        @@ ("bold" :> AttrIs(tag, "b", {"1", "true"}))
        @@ ("italic" :> AttrIs(tag, "i", {"1", "true"}))
        @@ ("underline" :> Underline(tag))
        @@ ("strikethrough" :> AttrIs(tag, "strike", {"sngStrike"}))
        @@ Baseline(tag)
        @@ (IF "typeface" \in DOMAIN tag.str THEN "font" :> tag.str["typeface"] ELSE NoProps)
        @@ Hundredths(tag, "spc", "spacing")
        @@ Caps(tag)

\* /<a:rPr([^>]*)>([\\s\\S]*?)<\/a:rPr>/
RunPropertiesAt(runContent, rPr) ==
    IF rPr = NoMatch THEN Run("", NoProps)
    ELSE Run("", extractRunPropertiesFromAttrs(runContent[rPr.s]))

extractRunProperties(runContent) ==
    RunPropertiesAt(runContent, MatchBackslashS(runContent, 1, "a:rPr", "a:rPr"))

\* textMatch ? textMatch[1] : ''; the characters of the class need no decoding
RunText(content, t) == IF t = NoMatch THEN "" ELSE TextOf(Inner(content, t))

\* /<a:r>([\\s\\S]*?)<\/a:r>/g: one run per match
RECURSIVE RunLoop(_, _, _)
RunLoop(paragraphContent, from, runs) ==
    IF MatchBareBackslashS(paragraphContent, from, "a:r") = NoMatch THEN runs
    ELSE RunLoop(paragraphContent,
                 MatchBareBackslashS(paragraphContent, from, "a:r").e + 1,
                 Append(runs,
                    [extractRunProperties(
                        Inner(paragraphContent, MatchBareBackslashS(paragraphContent, from, "a:r")))
                     EXCEPT !.text =
                        RunText(Inner(paragraphContent, MatchBareBackslashS(paragraphContent, from, "a:r")),
                                MatchBareBackslashS(
                                    Inner(paragraphContent, MatchBareBackslashS(paragraphContent, from, "a:r")),
                                    1, "a:t"))]))

\* a field run is pushed only when it has a text node
PushField(runs, fldContent, t) ==
    IF t = NoMatch THEN runs
    ELSE Append(runs, [extractRunProperties(fldContent) EXCEPT !.text = RunText(fldContent, t)])

\* /<a:fld[^>]*>([\\s\\S]*?)<\/a:fld>/g
RECURSIVE FieldLoop(_, _, _)
FieldLoop(paragraphContent, from, runs) ==
    IF MatchBackslashS(paragraphContent, from, "a:fld", "a:fld") = NoMatch THEN runs
    ELSE FieldLoop(paragraphContent,
                   MatchBackslashS(paragraphContent, from, "a:fld", "a:fld").e + 1,
                   PushField(runs,
                        Inner(paragraphContent, MatchBackslashS(paragraphContent, from, "a:fld", "a:fld")),
                        MatchBareBackslashS(
                            Inner(paragraphContent, MatchBackslashS(paragraphContent, from, "a:fld", "a:fld")),
                            1, "a:t")))

\* /<a:endParaRPr([^>]*)\/>/: the first such empty tag, 0 when there is none
EndParaRPr(paragraphContent) ==
    LET S == {i \in 1..Len(paragraphContent) :
                 StartsTag(paragraphContent[i], "a:endParaRPr")
                     /\ paragraphContent[i].kind = "empty"}
    IN  IF S = {} THEN 0 ELSE MinOf(S)

\* an empty run for a paragraph that has only the end-of-paragraph properties
OrEndParaRun(paragraphContent, runs, endPara) ==
    IF endPara # 0 /\ Len(runs) = 0
    THEN Append(runs, Run("", extractRunPropertiesFromAttrs(paragraphContent[endPara])))
    ELSE runs

extractTextRuns(paragraphContent) ==
    OrEndParaRun(paragraphContent,
                 FieldLoop(paragraphContent, 1, RunLoop(paragraphContent, 1, <<>>)),
                 EndParaRPr(paragraphContent))

-----------------------------------------------------------------------------
(* SpecRuns: extractTextRuns on the content of one paragraph               *)

MaxRuns == 2           \* runs and fields of a generated paragraph

RPr(num, str) == << Tok("a:rPr", "open", num, str), Close("a:rPr") >>

RunItems ==
    { << Open("a:r") >> \o RPr(("sz" :> 2400), ("lang" :> "en-US") @@ ("b" :> "1"))
          \o << Open("a:t"), Text("Hello"), Close("a:t"), Close("a:r") >>,
      << Open("a:r"), Open("a:t"), Text("Hello"), Close("a:t"), Close("a:r") >>,
      << Open("a:r"), Text("sS"), Close("a:r") >>,
      << Open("a:r"), Close("a:r") >>,
      << Tok("a:fld", "open", NoNum, "type" :> "slidenum"), Open("a:t"), Text("1"),
         Close("a:t"), Close("a:fld") >>,
      << Tok("a:fld", "open", NoNum, "type" :> "slidenum"), Text("s"), Close("a:fld") >> }

EndParaItems ==
    { <<>>,
      << Tok("a:endParaRPr", "empty", NoNum, "lang" :> "en-US") >>,
      << Tok("a:endParaRPr", "empty", "sz" :> 1800, ("lang" :> "en-US") @@ ("b" :> "1")) >> }

ParagraphContents ==
    { Flatten(items) \o e : items \in UNION { [1..n -> RunItems] : n \in 0..MaxRuns },
                            e \in EndParaItems }

InitRuns ==
    /\ pc = "start"
    /\ paragraph \in ParagraphContents
    /\ textRuns = <<>>
    /\ textNode = <<>> /\ textElement = <<>>
    /\ IdleCore /\ IdleApp /\ IdleFill /\ IdleUnits /\ IdleBatch

ExtractTextRuns ==
    /\ pc = "start"
    /\ textRuns' = extractTextRuns(paragraph)
    /\ pc' = "done"
    /\ UNCHANGED <<paragraph, textNode, textElement, coreVars, appVars, fillVars, unitVars, batchVars>>

NextRuns == ExtractTextRuns

SpecRuns == InitRuns /\ [][NextRuns]_vars

\* no fragment of the paragraph specifies a size or a weight
Unstyled(content) ==
    \A i \in 1..Len(content) :
        "sz" \notin DOMAIN content[i].num /\ "b" \notin DOMAIN content[i].str

\* C14: every run carries a size, a colour and a weight; where its fragment does
\* not specify them they are size 16, colour #000000 and bold = false
C14_RunDefaults ==
    pc = "done" =>
        \A i \in 1..Len(textRuns) :
            /\ {"size", "color", "bold"} \subseteq DOMAIN textRuns[i].props
            /\ Unstyled(paragraph) =>
                  /\ textRuns[i].props["size"] = Num(16)
                  /\ textRuns[i].props["color"] = Black
                  /\ textRuns[i].props["bold"] = FALSE

-----------------------------------------------------------------------------
(* SpecText: one slide is extracted, then extractTextFromShape is applied  *)
(* to one shape node                                                       *)

\* the transform of a generated shape: none, a real one, or one whose content
\* is made of the characters "s" and "S"
TextXfrm(kind) ==
    CASE kind = "real" -> Xfrm(Node("sp"))
      [] kind = "sS" -> << Open("a:xfrm"), Text("sS"), Close("a:xfrm") >>
      [] OTHER -> <<>>

\* the text body of a generated shape: none, a real one, an empty one, or one
\* whose content is made of the characters "s" and "S"
TextBody(kind) ==
    CASE kind = "real" -> TxBodyTokens("Hello")
      [] kind = "empty" -> << Open("p:txBody"), Close("p:txBody") >>
      [] kind = "sS" -> << Open("p:txBody"), Text("Ss"), Close("p:txBody") >>
      [] OTHER -> <<>>

TextShapes ==
    { << Open("p:sp"), Open("p:nvSpPr"), CNvPr([Node("sp") EXCEPT !.hasId = h]),
         Close("p:nvSpPr"), Open("p:spPr") >> \o TextXfrm(x) \o << Close("p:spPr") >>
          \o TextBody(b) \o << Close("p:sp") >> :
        h \in BOOLEAN, x \in {"none", "real", "sS"}, b \in {"none", "real", "empty", "sS"} }

InitText ==
    /\ pc = "start"
    /\ presentationXml = <<>>
    /\ slideRels = AllRelationships
    /\ zip = ArchiveWithMedia
    /\ props = <<>>
    /\ slideXml \in {d \in SlideDocs : Len(d.nodes) <= 1}
    /\ extracted = <<>>
    /\ elements = <<>>
    /\ textNode \in TextShapes
    /\ textElement = <<>>
    /\ paragraph = <<>> /\ textRuns = <<>>
    /\ IdleResolve /\ IdlePkg /\ IdleFill /\ IdleUnits /\ IdleBatch /\ IdleApp

ExtractTextFromShape ==
    /\ pc = "done"
    /\ textElement' = extractTextFromShape(textNode)
    /\ pc' = "text"
    /\ UNCHANGED <<paragraph, textRuns, textNode, coreVars, appVars, fillVars, unitVars, batchVars>>

NextText == ParsePresentationProps \/ ExtractSlideElements \/ ExtractTextFromShape

SpecText == InitText /\ [][NextText]_vars

\* the shape's text body holds no paragraph
ZeroParagraphs(node) == ~Includes(node, "a:p")

\* a Text element, standalone or embedded in a Shape, has a paragraph
HasParagraph(el) ==
    /\ el.type = "text" => Len(el.paragraphs) >= 1
    /\ el.type = "shape" /\ el.textContent # <<>> => Len(el.textContent[1].paragraphs) >= 1

-----------------------------------------------------------------------------
(* SpecProps: parsePresentationProps on a declared slide size that may be  *)
(* absent, malformed or zero, then extractSlideElements on one slide       *)

PresentationXmls ==
    { <<>>, SldSz(12192000, 6858000), SldSz(9144000, 6858000), SldSz(9144000, 5143500),
      << Letters, Digits(6858000) >>, << Digits(12192000), Letters >>,
      << Letters, Letters >>, SldSz(0, 6858000) }

InitProps ==
    /\ pc = "start"
    /\ presentationXml \in PresentationXmls
    /\ slideRels = AllRelationships
    /\ zip = ArchiveWithMedia
    /\ props = <<>>
    /\ slideXml \in {d \in SlideDocs : Len(d.nodes) <= 1}
    /\ extracted = <<>>
    /\ elements = <<>>
    /\ IdleResolve /\ IdlePkg /\ IdleAux

NextProps == ParsePresentationProps \/ ExtractSlideElements

SpecProps == InitProps /\ [][NextProps]_vars

Positive(a) == IsFinite(a) /\ Less(Num(0), a)

\* the declared size is absent, or one of cx and cy is not a number
AbsentOrMalformed(xml) == xml = <<>> \/ ~xml[1].numeric \/ ~xml[2].numeric

\* C16: when the declared slide size is absent or malformed the native size is
\* the default 12192000 x 6858000, and native size, scale factor and render
\* size are finite positive numbers
C16_DefaultSizeWhenMalformed ==
    pc # "start" /\ AbsentOrMalformed(presentationXml) =>
        /\ props.originalSizeEmu = [width |-> Num(DEFAULT_SLIDE_WIDTH_EMU),
                                    height |-> Num(DEFAULT_SLIDE_HEIGHT_EMU)]
        /\ Positive(props.scaleFactor)
        /\ Positive(props.size.width) /\ Positive(props.size.height)

\* the package declares a slide width of zero
ZeroWidth(xml) == xml # <<>> /\ xml[1].numeric /\ xml[1].value = 0

FiniteBox(el) ==
    IsFinite(el.x) /\ IsFinite(el.y) /\ IsFinite(el.width) /\ IsFinite(el.height)

\* C17: with a declared slide width of zero the scale factor is not the result
\* of a division by zero, and no element has an infinite or NaN coordinate
C17_ZeroWidthIsAnError ==
    pc # "start" /\ ZeroWidth(presentationXml) =>
        /\ IsFinite(props.scaleFactor)
        /\ pc = "done" =>
              \A i \in 1..Len(AllElements(elements)) : FiniteBox(AllElements(elements)[i])

\* the declared size is absent, or both numbers are positive
WellFormedSize(xml) ==
    xml = <<>> \/ (xml[1].numeric /\ xml[2].numeric /\ xml[1].value > 0 /\ xml[2].value > 0)

\* C18: the render size is 960 wide and (nativeHeight / 914400) * 96 *
\* scaleFactor high, rounded; for the default native size it is 960 x 540
C18_RenderSizeInPixels ==
    pc # "start" /\ WellFormedSize(presentationXml) =>
        /\ props.size.width = Num(RENDER_WIDTH)
        /\ props.size.height =
              Round(emuToPixels(props.originalSizeEmu.height, props.scaleFactor))
        /\ presentationXml = <<>> =>
              props.size = [width |-> Num(RENDER_WIDTH), height |-> Num(RENDER_HEIGHT)]

-----------------------------------------------------------------------------
(* JavaScript numbers as IEEE 754 doubles, for the unit round trip         *)
(* A positive double is m * 2^e: m is its significand, a sequence of       *)
(* Precision bits that starts with 1 (most significant first), and e the   *)
(* exponent of its last bit.  Every operation is the exact result rounded  *)
(* to the nearest double, ties to even.                                    *)

Precision == 53

\* the arithmetic below works on groups of 10 bits, so that every intermediate
\* number stays below 2^31

Zero == [m |-> <<>>, e |-> 0]

\* n as w binary digits, most significant first
ToBits(n, w) == [i \in 1..w |-> (n \div 2^(w - i)) % 2]

\* the bits without their leading zeros
Strip(bits) ==
    IF \A i \in 1..Len(bits) : bits[i] = 0 THEN <<>>
    ELSE SubSeq(bits, MinOf({i \in 1..Len(bits) : bits[i] = 1}), Len(bits))

Zeros(n) == [i \in 1..n |-> 0]

\* the number written by the first 10 bits of c
Val(c) ==
    512 * c[1] + 256 * c[2] + 128 * c[3] + 64 * c[4] + 32 * c[5]
        + 16 * c[6] + 8 * c[7] + 4 * c[8] + 2 * c[9] + c[10]

\* the double of a non-negative integer below 2^31
FromInt(n) ==
    IF n = 0 THEN Zero
    ELSE [m |-> Strip(ToBits(n, 31)) \o Zeros(Precision - Len(Strip(ToBits(n, 31)))),
          e |-> Len(Strip(ToBits(n, 31))) - Precision]

\* bits + 1; one bit longer when every bit was 1
Inc(bits) ==
    IF \A i \in 1..Len(bits) : bits[i] = 1 THEN << 1 >> \o Zeros(Len(bits))
    ELSE [i \in 1..Len(bits) |->
            IF \E j \in (i + 1)..Len(bits) : bits[j] = 0 THEN bits[i]
            ELSE IF bits[i] = 0 THEN 1 ELSE 0]

Normalize(bits, e) ==
    IF Len(bits) > Precision THEN [m |-> SubSeq(bits, 1, Precision), e |-> e + 1]
    ELSE [m |-> bits, e |-> e]

\* round to nearest, ties to even: q holds the significant bits of the exact
\* result (at least Precision + 1 of them), sticky tells that more non-zero
\* bits follow, e is the exponent of the last bit of q
RoundBits(q, sticky, e) ==
    IF /\ q[Precision + 1] = 1
       /\ \/ sticky
          \/ \E i \in (Precision + 2)..Len(q) : q[i] = 1
          \/ q[Precision] = 1
    THEN Normalize(Inc(SubSeq(q, 1, Precision)), e + Len(q) - Precision)
    ELSE [m |-> SubSeq(q, 1, Precision), e |-> e + Len(q) - Precision]

\* long division by d, a group of bits at a time: the quotient bits and the
\* remainder that is left
RECURSIVE DivLoop(_, _, _, _)
DivLoop(rest, d, r, q) ==
    IF rest = <<>> THEN [q |-> q, r |-> r]
    ELSE DivLoop(SubSeq(rest, 11, Len(rest)), d,
                 (r * 1024 + Val(rest)) % d,
                 q \o ToBits((r * 1024 + Val(rest)) \div d, 10))

\* 27 zeros are brought down, so that the quotient has Precision + 1 bits or more
Quotient(x, res) == RoundBits(Strip(res.q), res.r # 0, x.e - 27)

\* x / d for a positive integer d below 2^20
DivSmall(x, d) ==
    IF x = Zero THEN Zero ELSE Quotient(x, DivLoop(x.m \o Zeros(27), d, 0, <<>>))

\* the exact product of the significand and k, a group of bits at a time from
\* the right
RECURSIVE MulLoop(_, _, _, _)
MulLoop(bits, k, carry, p) ==
    IF bits = <<>> THEN ToBits(carry, 20) \o p
    ELSE MulLoop(SubSeq(bits, 1, Len(bits) - 10), k,
                 (Val(SubSeq(bits, Len(bits) - 9, Len(bits))) * k + carry) \div 1024,
                 ToBits((Val(SubSeq(bits, Len(bits) - 9, Len(bits))) * k + carry) % 1024, 10)
                     \o p)

Product(x, p) == RoundBits(Append(Strip(p), 0), FALSE, x.e - 1)

\* x * k for a positive integer k below 2^20; 7 zeros in front of the
\* significand fill its first group
MulSmall(x, k) ==
    IF x = Zero THEN Zero ELSE Product(x, MulLoop(Zeros(7) \o x.m, k, 0, <<>>))

\* variant of emuToPoints: 12000 native units per point
emuToPoints_Per12000(emu) == DivSmall(emu, 12000)

\* emu / EMU_PER_POINT
emuToPoints(emu) == DivSmall(emu, EMU_PER_POINT)

\* points * PIXELS_PER_INCH / 72
pointsToPixels(points) == DivSmall(MulSmall(points, PIXELS_PER_INCH), 72)

\* (emu / EMU_PER_INCH) * PIXELS_PER_INCH * scaleFactor, in doubles, with an
\* integer scale factor
emuToPixelsDouble(emu, scaleFactor) ==
    MulSmall(MulSmall(DivSmall(emu, EMU_PER_INCH), PIXELS_PER_INCH), scaleFactor)

-----------------------------------------------------------------------------
(* SpecUnits: a length converted to pixels by way of points, and directly  *)

MaxEmu == 120          \* the largest generated length, in native units

InitUnits ==
    /\ pc = "start"
    /\ lengthEmu \in 0..MaxEmu
    /\ viaPoints = <<>>
    /\ direct = <<>>
    /\ IdleCore /\ IdleApp /\ IdleFill /\ IdleText /\ IdleBatch

ConvertViaPoints ==
    /\ pc = "start"
    /\ viaPoints' = pointsToPixels(emuToPoints(FromInt(lengthEmu)))
    /\ pc' = "points"
    /\ UNCHANGED <<lengthEmu, direct, coreVars, appVars, fillVars, textVars, batchVars>>

ConvertDirect ==
    /\ pc = "points"
    /\ direct' = emuToPixelsDouble(FromInt(lengthEmu), 1)
    /\ pc' = "done"
    /\ UNCHANGED <<lengthEmu, viaPoints, coreVars, appVars, fillVars, textVars, batchVars>>

NextUnits == ConvertViaPoints \/ ConvertDirect

SpecUnits == InitUnits /\ [][NextUnits]_vars

\* the next double above x
Succ(x) == Normalize(Inc(x.m), x.e)

\* a and b are at most two units in the last place apart
WithinTwoUlps(a, b) ==
    \/ a = b
    \/ b \in {Succ(a), Succ(Succ(a))}
    \/ a \in {Succ(b), Succ(Succ(b))}

-----------------------------------------------------------------------------
(* Batches of uploaded files (slideProcessor.ts, processUploadedFiles)     *)
(* A file is [name, extension, enhanced, parsed, throwsAt]: enhanced is    *)
(* what parseEnhancedPowerPoint returns for it and parsed what             *)
(* parsePowerPointFile returns (both return [] when they fail); throwsAt   *)
(* is the index of the parsed slide whose conversion raises an exception,  *)
(* 0 when none does.  Generated ids are left out of the slides.            *)

\* a slide of the enhanced parser: one text element
EnhancedSlide(content, fontSize) ==
    [kind |-> "enhanced", content |-> content, fontSize |-> fontSize,
     color |-> "#000000", fontWeight |-> "normal", template |-> ""]

\* element.content.includes('MARINE CORPS') || element.content.includes('USMC')
marineCorpsDetected(enhancedSlides) ==
    \E i \in 1..Len(enhancedSlides) : enhancedSlides[i].content \in {"MARINE CORPS", "USMC"}

\* title elements get the Marine Corps red when the file was detected as such
ApplyMarineCorps(slide) ==
    IF slide.fontSize >= 20 THEN [slide EXCEPT !.color = "#cc0000", !.fontWeight = "bold"]
    ELSE slide

StyledSlides(enhancedSlides) ==
    IF marineCorpsDetected(enhancedSlides)
    THEN [i \in 1..Len(enhancedSlides) |-> ApplyMarineCorps(enhancedSlides[i])]
    ELSE enhancedSlides

\* variant: the template remembered from the previous file is kept
TemplateAtFileStart_Remembered(previous) == previous

\* let currentFileTemplate: string | undefined, declared inside the loop body
TemplateAtFileStart(previous) == ""

\* variant: a slide takes only the template detected on itself
TemplateOf_OwnOnly(parsedSlide, remembered) == parsedSlide.detectedTemplate

\* the template of a parsed slide: its own, or the one remembered for the file
TemplateOf(parsedSlide, remembered) ==
    IF parsedSlide.detectedTemplate # "" THEN parsedSlide.detectedTemplate ELSE remembered

LegacySlideOf(parsedSlide, template) ==
    [kind |-> "legacy", content |-> parsedSlide.content, fontSize |-> 24,
     color |-> "#000000", fontWeight |-> "normal", template |-> template]

OtherSlide(file) ==
    [kind |-> "other", content |-> file.name, fontSize |-> 24,
     color |-> "#000000", fontWeight |-> "normal", template |-> ""]

ErrorSlide(file) ==
    [kind |-> "error", content |-> file.name, fontSize |-> 20,
     color |-> "#dc2626", fontWeight |-> "normal", template |-> ""]

-----------------------------------------------------------------------------
(* SpecBatch: processUploadedFiles on a batch of files                     *)

MaxFiles == 2          \* files of a generated batch

Parsed(content, template) == [content |-> content, detectedTemplate |-> template]

File(name, extension, enhanced, parsed, throwsAt) ==
    [name |-> name, extension |-> extension, enhanced |-> enhanced, parsed |-> parsed,
     throwsAt |-> throwsAt]

FileKinds ==
    { File("plain.pptx", "pptx", << EnhancedSlide("Hello", 24) >>, <<>>, 0),
      File("usmc.pptx", "pptx",
           << EnhancedSlide("USMC", 12), EnhancedSlide("Title", 24) >>, <<>>, 0),
      File("legacy.pptx", "pptx", <<>>,
           << Parsed("One", ""), Parsed("Two", "marine-corps") >>, 0),
      File("template.pptx", "pptx", <<>>,
           << Parsed("One", "marine-corps"), Parsed("Two", "") >>, 0),
      File("old.pptx", "pptx", <<>>, << Parsed("Only", "") >>, 0),
      File("corrupt.pptx", "pptx", <<>>, <<>>, 0),
      File("throws.pptx", "pptx", <<>>, << Parsed("One", ""), Parsed("Two", "") >>, 2),
      File("deck.ppt", "ppt", <<>>, <<>>, 0) }

Batches == UNION { [1..n -> FileKinds] : n \in 0..MaxFiles }

InitBatch ==
    /\ pc = "file"
    /\ uploaded \in Batches
    /\ fileIndex = 1
    /\ parsedIndex = 0
    /\ currentFileTemplate = ""
    /\ allSlides = <<>>
    /\ parserCalls = <<>>
    /\ IdleCore /\ IdleApp /\ IdleFill /\ IdleText /\ IdleUnits

AtFile == pc = "file" /\ fileIndex <= Len(uploaded)

\* variant: the enhanced parser is taken to have failed whatever it returned
EnhancedFailed_Always(enhancedSlides) == TRUE

\* the negation of: enhancedSlides && enhancedSlides.length > 0
EnhancedFailed(enhancedSlides) == Len(enhancedSlides) = 0

\* a call of a parser on a file of the batch
Call(parser, index) == [parser |-> parser, file |-> index]

\* a .pptx file: parseEnhancedPowerPoint(file) is called first
CallEnhancedParser ==
    /\ AtFile
    /\ uploaded[fileIndex].extension = "pptx"
    /\ parserCalls' = Append(parserCalls, Call("parseEnhancedPowerPoint", fileIndex))
    /\ pc' = "enhanced"
    /\ UNCHANGED <<uploaded, fileIndex, parsedIndex, currentFileTemplate, allSlides,
                   coreVars, appVars, fillVars, textVars, unitVars>>

\* the enhanced parser returned slides: they are pushed and the loop continues
EnhancedParser ==
    /\ pc = "enhanced"
    /\ ~EnhancedFailed(uploaded[fileIndex].enhanced)
    /\ allSlides' = allSlides \o StyledSlides(uploaded[fileIndex].enhanced)
    /\ fileIndex' = fileIndex + 1
    /\ pc' = "file"
    /\ UNCHANGED <<uploaded, parsedIndex, currentFileTemplate, parserCalls,
                   coreVars, appVars, fillVars, textVars, unitVars>>

\* the enhanced parser returned nothing: parsePowerPointFile(file) is called
LegacyParser ==
    /\ pc = "enhanced"
    /\ EnhancedFailed(uploaded[fileIndex].enhanced)
    /\ parserCalls' = Append(parserCalls, Call("parsePowerPointFile", fileIndex))
    /\ currentFileTemplate' = TemplateAtFileStart(currentFileTemplate)
    /\ parsedIndex' = 1
    /\ pc' = "legacy"
    /\ UNCHANGED <<uploaded, fileIndex, allSlides, coreVars, appVars, fillVars, textVars, unitVars>>

InLegacy == pc = "legacy" /\ parsedIndex <= Len(uploaded[fileIndex].parsed)

\* one iteration of the loop over parsedSlides
LegacySlide ==
    /\ InLegacy
    /\ uploaded[fileIndex].throwsAt # parsedIndex
    /\ currentFileTemplate' =
          TemplateOf(uploaded[fileIndex].parsed[parsedIndex], currentFileTemplate)
    /\ allSlides' =
          Append(allSlides,
                 LegacySlideOf(uploaded[fileIndex].parsed[parsedIndex],
                               TemplateOf(uploaded[fileIndex].parsed[parsedIndex],
                                          currentFileTemplate)))
    /\ parsedIndex' = parsedIndex + 1
    /\ UNCHANGED <<pc, uploaded, fileIndex, parserCalls,
                   coreVars, appVars, fillVars, textVars, unitVars>>

\* the loop over parsedSlides ends: next file
LegacyDone ==
    /\ pc = "legacy"
    /\ parsedIndex > Len(uploaded[fileIndex].parsed)
    /\ fileIndex' = fileIndex + 1
    /\ pc' = "file"
    /\ UNCHANGED <<uploaded, parsedIndex, currentFileTemplate, allSlides, parserCalls,
                   coreVars, appVars, fillVars, textVars, unitVars>>

\* a file that is not a .pptx: one slide that names it
OtherFile ==
    /\ AtFile
    /\ uploaded[fileIndex].extension # "pptx"
    /\ allSlides' = Append(allSlides, OtherSlide(uploaded[fileIndex]))
    /\ fileIndex' = fileIndex + 1
    /\ UNCHANGED <<pc, uploaded, parsedIndex, currentFileTemplate, parserCalls,
                   coreVars, appVars, fillVars, textVars, unitVars>>

\* catch (error): an error slide for the file, then the next file
CatchError ==
    /\ InLegacy
    /\ uploaded[fileIndex].throwsAt = parsedIndex
    /\ allSlides' = Append(allSlides, ErrorSlide(uploaded[fileIndex]))
    /\ fileIndex' = fileIndex + 1
    /\ pc' = "file"
    /\ UNCHANGED <<uploaded, parsedIndex, currentFileTemplate, parserCalls,
                   coreVars, appVars, fillVars, textVars, unitVars>>

\* return allSlides (also the early return for no files)
ReturnAllSlides ==
    /\ pc = "file"
    /\ fileIndex > Len(uploaded)
    /\ pc' = "returned"
    /\ UNCHANGED <<batchVars, coreVars, appVars, fillVars, textVars, unitVars>>

NextBatch ==
    \/ CallEnhancedParser \/ EnhancedParser \/ LegacyParser \/ LegacySlide \/ LegacyDone
    \/ OtherFile \/ CatchError \/ ReturnAllSlides

SpecBatch == InitBatch /\ [][NextBatch]_vars

\* the slides of the legacy path for a file processed alone
RECURSIVE LegacyAlone(_, _, _)
LegacyAlone(file, i, remembered) ==
    IF i > Len(file.parsed) THEN <<>>
    ELSE IF file.throwsAt = i THEN << ErrorSlide(file) >>
    ELSE << LegacySlideOf(file.parsed[i], TemplateOf(file.parsed[i], remembered)) >>
             \o LegacyAlone(file, i + 1, TemplateOf(file.parsed[i], remembered))

\* what processUploadedFiles produces for the file alone
Alone(file) ==
    IF file.extension # "pptx" THEN << OtherSlide(file) >>
    ELSE IF Len(file.enhanced) > 0 THEN StyledSlides(file.enhanced)
    ELSE LegacyAlone(file, 1, "")

\* the file fails: both parsers return nothing, or its conversion throws
Fails(file) ==
    file.extension = "pptx" /\ Len(file.enhanced) = 0
        /\ (Len(file.parsed) = 0 \/ file.throwsAt # 0)

\* C20: the batch always runs to its end, and its output is, in file order, what
\* each file produces when it is processed alone: a failing file neither aborts
\* the batch nor changes the slides of the other files
C20_BatchIsolation ==
    /\ pc = "returned" =>
          allSlides = Flatten([i \in 1..Len(uploaded) |-> Alone(uploaded[i])])
    /\ pc # "returned" => ENABLED NextBatch

\* C20 witness: a batch of a failing file followed by a file that parses has
\* returned the slides of the second file
C20_Witness ==
    /\ pc = "returned"
    /\ Len(uploaded) = 2
    /\ Fails(uploaded[1]) /\ Len(uploaded[1].parsed) = 0
    /\ ~Fails(uploaded[2]) /\ uploaded[2].extension = "pptx"
    /\ allSlides = Alone(uploaded[2]) /\ allSlides # <<>>

\* the error slides of the output that name the file
ErrorSlidesFor(file) ==
    { i \in 1..Len(allSlides) : allSlides[i] = ErrorSlide(file) }

\* C21: when the batch has returned, every failing file of the batch has exactly
\* one error slide in the output
C21_OneErrorSlidePerFailure ==
    pc = "returned" =>
        \A file \in FileKinds :
            Fails(file) =>
                Cardinality(ErrorSlidesFor(file))
                    = Cardinality({ i \in 1..Len(uploaded) : uploaded[i] = file })

-----------------------------------------------------------------------------
(* SpecLookup: findImageInZip on bounded archives                          *)

MaxEntries == 2        \* entries of a generated archive

EntryDirectories == { <<"ppt", "media">>, <<"media">>, <<"embeddings">>, <<"other">> }

EntryFileNames == { "image1.png", "IMAGE1.PNG", "ximage1.png" }

EntryNames == { d \o <<f>> : d \in EntryDirectories, f \in EntryFileNames }

\* archives: sequences of entries with distinct names
LookupArchives ==
    UNION { { z \in [1..n -> [name : EntryNames, bytes : {"png"}]] :
                \A i, j \in 1..n : z[i].name = z[j].name => i = j } : n \in 0..MaxEntries }

LookupPaths ==
    { <<"ppt", "media", "image1.png">>, <<"ppt", "images", "image1.png">>, <<"image1.png">> }

InitLookup ==
    /\ pc = "start"
    /\ lookupPath \in LookupPaths
    /\ lookupZip \in LookupArchives
    /\ lookupResult = 0
    /\ IdleCore /\ IdleFill /\ IdleText /\ IdleUnits /\ IdleBatch
    /\ IdleTemplate /\ IdleConvert /\ IdleEditor

FindImageInZip ==
    /\ pc = "start"
    /\ lookupResult' = findImageInZip(PathStr(lookupPath), lookupZip)
    /\ pc' = "found"
    /\ UNCHANGED <<lookupPath, lookupZip, coreVars, fillVars, textVars, unitVars, batchVars,
                   templateVars, convertVars, editorVars>>

NextLookup == FindImageInZip

SpecLookup == InitLookup /\ [][NextLookup]_vars

\* the conventional media directories, without the root entry of the list
MediaDirectories == Tail(POTENTIAL_IMAGE_PATHS)

FileNameOf(path) == path[Len(path)]

\* strategy 2: the hits of the bare file name under the media directories, as
\* indexes into the list of directories
DirectoryHits(path, z) ==
    { k \in 1..Len(MediaDirectories) :
        ZipFile(z, MediaDirectories[k] \o <<FileNameOf(path)>>) # 0 }

\* strategy 3: the entries whose name ends with the file name, whatever the case
SuffixMatches(path, z) ==
    { i \in 1..Len(z) :
        SegEndsWith(Lower(FileNameOf(z[i].name)), Lower(FileNameOf(path))) }

\* the results the three strategies allow, tried strictly in order
SpecifiedLookup(path, z) ==
    IF ZipFile(z, path) # 0 THEN { ZipFile(z, path) }
    ELSE IF DirectoryHits(path, z) # {}
    THEN { ZipFile(z, MediaDirectories[MinOf(DirectoryHits(path, z))] \o <<FileNameOf(path)>>) }
    ELSE IF SuffixMatches(path, z) # {} THEN SuffixMatches(path, z)
    ELSE { 0 }

\* C22: findImageInZip returns the entry at the resolved path; failing that the
\* bare file name under the first conventional media directory that has it;
\* and only when no directory has it an entry matching the file name as a
\* case-insensitive suffix
C22_StrategiesInOrder ==
    pc = "found" => lookupResult \in SpecifiedLookup(lookupPath, lookupZip)

-----------------------------------------------------------------------------
(* Fields and literal runs (checked under SpecRuns)                        *)

\* the positions of the opening tags of the literal runs of a paragraph
RunOpens(content) ==
    { i \in 1..Len(content) : content[i].tag = "a:r" /\ content[i].kind = "open" }

\* the closing tag of the run opened at i
RunClose(content, i) ==
    MinOf({ j \in i + 1..Len(content) : content[j].tag = "a:r" /\ content[j].kind = "close" })

\* the paragraph with the literal run opened at i replaced by a field node of the
\* same inner content
AsField(content, i) ==
    [k \in 1..Len(content) |->
        IF k = i THEN Tok("a:fld", "open", NoNum, "type" :> "slidenum")
        ELSE IF k = RunClose(content, i) THEN Close("a:fld")
        ELSE content[k]]

\* C23: replacing any literal run of the paragraph by a field node of the same
\* inner content leaves the extracted runs, and their order, unchanged
C23_FieldsLikeRuns ==
    pc = "done" =>
        \A i \in RunOpens(paragraph) : extractTextRuns(AsField(paragraph, i)) = textRuns

-----------------------------------------------------------------------------
(* Groups without children (checked under SpecSlide)                       *)

\* the content of a serialised group node: the tokens between its tags
GroupContentOf(g) == SubSeq(NodeTokens(g), 2, Len(NodeTokens(g)) - 1)

\* the children the two child loops extract from a group of shapes and pictures
ChildElementsOf(g) ==
    ChildPicLoop(GroupContentOf(g), 1, slideRels, zip, props.scaleFactor, Num(0), Num(0),
        ChildShapeLoop(GroupContentOf(g), 1, slideRels, zip, props.scaleFactor,
                       Num(0), Num(0), <<>>))

\* a top-level group whose position is read and whose children yield nothing
ChildlessGroup(g) ==
    /\ g.kind = "grpSp" /\ g.ns = "p"
    /\ \A k \in 1..Len(g.children) : g.children[k].kind \in {"sp", "pic"}
    /\ Len(ChildElementsOf(g)) = 0

\* the element of a shape or picture node is in the list
Extracted(n, els) ==
    \E j \in 1..Len(els) :
        els[j].id = NodeId(n.id) /\ els[j].type = (IF n.kind = "sp" THEN "shape" ELSE "image")

\* C24: a group whose children yield nothing gives no Group element, and every
\* well-formed shape and resolvable picture inside it is in the element list
C24_ChildlessGroupDegenerates ==
    (Done /\ slideXml.tree) =>
        \A i \in 1..Len(slideXml.nodes) :
            ChildlessGroup(slideXml.nodes[i]) =>
                /\ \A j \in 1..Len(elements) :
                      ~(elements[j].type = "group"
                            /\ elements[j].id = NodeId(slideXml.nodes[i].id))
                /\ \A k \in 1..Len(slideXml.nodes[i].children) :
                      (WellFormedShape(slideXml.nodes[i].children[k])
                          \/ ResolvablePicture(slideXml.nodes[i].children[k]))
                        => Extracted(slideXml.nodes[i].children[k], elements)

-----------------------------------------------------------------------------
(* The two parsers of a .pptx file (checked under SpecBatch)               *)

\* the positions in the log of the calls of a parser on a file
CallsOf(parser, index) ==
    { k \in 1..Len(parserCalls) : parserCalls[k] = Call(parser, index) }

\* the loop has finished with the file
Finished(index) == fileIndex > index \/ pc = "returned"

\* the legacy parser is called on a file only after the enhanced parser, and
\* exactly when the enhanced parser returned no slides
LegacyOnlyAfterEnhancedFailed(index) ==
    /\ Cardinality(CallsOf("parseEnhancedPowerPoint", index)) <= 1
    /\ Cardinality(CallsOf("parsePowerPointFile", index)) <= 1
    /\ \A k \in CallsOf("parsePowerPointFile", index) :
          /\ Len(uploaded[index].enhanced) = 0
          /\ \E j \in CallsOf("parseEnhancedPowerPoint", index) : j < k
    /\ (Finished(index) /\ uploaded[index].extension = "pptx") =>
          /\ CallsOf("parseEnhancedPowerPoint", index) # {}
          /\ (Len(uploaded[index].enhanced) = 0
                 <=> CallsOf("parsePowerPointFile", index) # {})

\* the slides a step appends to allSlides
Pushed(before, after) == SubSeq(after, Len(before) + 1, Len(after))

\* the slides a step pushes for the current file come from one parser: slides of
\* the enhanced parser when the legacy parser was not called on the file, and
\* nothing of the enhanced parser once it was
FromOneParser(pushed) ==
    \A k \in 1..Len(pushed) :
        IF pushed[k].kind = "enhanced"
        THEN CallsOf("parsePowerPointFile", fileIndex) = {}
        ELSE pushed[k].kind \in {"legacy", "error"} =>
                /\ CallsOf("parsePowerPointFile", fileIndex) # {}
                /\ Len(uploaded[fileIndex].enhanced) = 0

\* C25: for every .pptx file the legacy parser is called if and only if the
\* enhanced parser returned no slides, and after it; the slides pushed for a
\* file come from exactly one of the two parsers
C25_OneParserPerFile ==
    /\ [](\A index \in 1..Len(uploaded) : LegacyOnlyAfterEnhancedFailed(index))
    /\ [][FromOneParser(Pushed(allSlides, allSlides'))]_vars

\* C25 witness: a batch has returned in which one file went through the legacy
\* parser and gave legacy slides, and another gave the slides of the enhanced
\* parser without a call of the legacy parser
C25_Witness ==
    /\ pc = "returned"
    /\ \E i, j \in 1..Len(uploaded) :
          /\ CallsOf("parsePowerPointFile", i) # {} /\ Len(uploaded[i].parsed) > 0
          /\ CallsOf("parsePowerPointFile", j) = {} /\ Len(uploaded[j].enhanced) > 0
    /\ \E k \in 1..Len(allSlides) : allSlides[k].kind = "legacy"
    /\ \E k \in 1..Len(allSlides) : allSlides[k].kind = "enhanced"

-----------------------------------------------------------------------------
(* The remembered template (checked under SpecBatch)                       *)

\* a template was detected on one of the first n parsed slides of the file
DetectedUpTo(parsedSlides, n) ==
    \E j \in 1..n : parsedSlides[j].detectedTemplate # ""

\* every legacy slide a step pushes is styled exactly when a template was
\* detected on it or on an earlier slide of the same file
StyledIffDetectedBefore(pushed) ==
    \A k \in 1..Len(pushed) :
        pushed[k].kind = "legacy" =>
            (pushed[k].template # ""
                <=> DetectedUpTo(uploaded[fileIndex].parsed, parsedIndex))

\* C26: on the legacy path a slide receives template styling if and only if it,
\* or an earlier slide of the same file, had a template detected: slides before
\* the first detection are not styled and a template never reaches another file
C26_TemplateFlowsForwardInFile ==
    [][StyledIffDetectedBefore(Pushed(allSlides, allSlides'))]_vars

\* C26 witness: a file with a template detected on its first slide only is
\* followed by a legacy file without any; the slides of the first are styled,
\* the last slide of the batch is not
C26_Witness ==
    /\ pc = "returned"
    /\ Len(uploaded) = 2
    /\ Len(uploaded[1].parsed) = 2 /\ uploaded[1].throwsAt = 0
    /\ uploaded[1].parsed[1].detectedTemplate # ""
    /\ uploaded[1].parsed[2].detectedTemplate = ""
    /\ Len(uploaded[2].parsed) > 0 /\ ~DetectedUpTo(uploaded[2].parsed, Len(uploaded[2].parsed))
    /\ Len(allSlides) >= 3
    /\ allSlides[1].template # "" /\ allSlides[2].template # ""
    /\ allSlides[Len(allSlides)].kind = "legacy" /\ allSlides[Len(allSlides)].template = ""

-----------------------------------------------------------------------------
(* Template styling (slideProcessor.ts, applyTemplateStyle)                *)
(* A slide is [backgroundColor, elements]; the content of an element is    *)
(* the sequence of its words, so that join(' ') is concatenation and \s+   *)
(* stands between two consecutive words.                                   *)

SlideElement(id, type, content) == [id |-> id, type |-> type, content |-> content]

\* the words of the model in lower case (the expressions carry the i flag)
LowerCase(word) ==
    CASE word = "United" -> "united"
      [] word = "States" -> "states"
      [] word = "Marine" -> "marine"
      [] word = "Corps" -> "corps"
      [] word = "Inspector" -> "inspector"
      [] word = "INSPECTOR" -> "inspector"
      [] word = "General" -> "general"
      [] word = "Intelligence" -> "intelligence"
      [] word = "Oversight" -> "oversight"
      [] OTHER -> word

\* variant: the check for an existing element always fails
HasElement_Never(els, id) == FALSE

\* slide.elements.some(el => el.id === id)
HasElement(els, id) == \E i \in 1..Len(els) : els[i].id = id

\* if (!has) slide.elements.push(element)
PushUnless(has, els, element) == IF has THEN els ELSE Append(els, element)

\* the sidebars and the emblem, each tested on the elements before any push
WithSidebars(els) ==
    PushUnless(HasElement(els, "mc-emblem"),
        PushUnless(HasElement(els, "mc-right-sidebar"),
            PushUnless(HasElement(els, "mc-left-sidebar"), els,
                       SlideElement("mc-left-sidebar", "rectangle", <<>>)),
            SlideElement("mc-right-sidebar", "rectangle", <<>>)),
        SlideElement("mc-emblem", "image", <<"/image1.jpg">>))

\* filter(el => el.type === 'text').map(el => el.content || '').join(' ')
contentText(els) ==
    Flatten([i \in 1..Len(els) |-> IF els[i].type = "text" THEN els[i].content ELSE <<>>])

\* /word\s+word.../i.test(text)
TestPhrase(text, phrase) ==
    \E i \in 0..(Len(text) - Len(phrase)) :
        \A k \in 1..Len(phrase) : LowerCase(text[i + k]) = phrase[k]

\* the three text elements, each tested on the text read before any of them is
\* pushed
WithTitles(els, text) ==
    PushUnless(TestPhrase(text, <<"intelligence", "oversight">>),
        PushUnless(TestPhrase(text, <<"inspector", "general">>),
            PushUnless(TestPhrase(text, <<"united", "states", "marine", "corps">>), els,
                       SlideElement("mc-title", "text",
                                    <<"United", "States", "Marine", "Corps">>)),
            SlideElement("mc-subtitle", "text", <<"Inspector", "General">>)),
        SlideElement("mc-main-title", "text", <<"Intelligence", "Oversight">>))

applyTemplateStyle(slide, templateId) ==
    IF templateId = "marine-corps"
    THEN [backgroundColor |-> "white",
          elements |-> WithTitles(WithSidebars(slide.elements),
                                  contentText(WithSidebars(slide.elements)))]
    ELSE slide

-----------------------------------------------------------------------------
(* SpecTemplate: applyTemplateStyle applied twice to one slide             *)

MaxElements == 2       \* elements of a generated slide

TemplateElements ==
    { SlideElement("text-1", "text", <<"Hello">>),
      SlideElement("text-2", "text", <<"United", "States", "Marine", "Corps">>),
      SlideElement("text-3", "text", <<"United", "States">>),
      SlideElement("text-4", "text", <<"Marine", "Corps">>),
      SlideElement("text-5", "text", <<"INSPECTOR", "General">>),
      SlideElement("text-6", "text", <<>>),
      SlideElement("image-1", "image", <<"Intelligence", "Oversight">>),
      SlideElement("mc-left-sidebar", "rectangle", <<>>),
      SlideElement("mc-emblem", "text", <<"Intelligence", "Oversight">>) }

TemplateSlides ==
    { [backgroundColor |-> "#ffffff", elements |-> els] :
        els \in UNION { [1..n -> TemplateElements] : n \in 0..MaxElements } }

InitTemplate ==
    /\ pc = "start"
    /\ templateSlide \in TemplateSlides
    /\ appliedOnce = <<>>
    /\ appliedTwice = <<>>
    /\ IdleCore /\ IdleFill /\ IdleText /\ IdleUnits /\ IdleBatch
    /\ IdleLookup /\ IdleConvert /\ IdleEditor

ApplyTemplateStyle ==
    /\ pc = "start"
    /\ appliedOnce' = applyTemplateStyle(templateSlide, "marine-corps")
    /\ pc' = "once"
    /\ UNCHANGED <<templateSlide, appliedTwice, coreVars, fillVars, textVars, unitVars,
                   batchVars, lookupVars, convertVars, editorVars>>

ApplyTemplateStyleAgain ==
    /\ pc = "once"
    /\ appliedTwice' = applyTemplateStyle(appliedOnce, "marine-corps")
    /\ pc' = "twice"
    /\ UNCHANGED <<templateSlide, appliedOnce, coreVars, fillVars, textVars, unitVars,
                   batchVars, lookupVars, convertVars, editorVars>>

NextTemplate == ApplyTemplateStyle \/ ApplyTemplateStyleAgain

SpecTemplate == InitTemplate /\ [][NextTemplate]_vars

\* the elements of a slide that carry the id
WithId(slide, id) == { i \in 1..Len(slide.elements) : slide.elements[i].id = id }

TemplateIds ==
    { "mc-left-sidebar", "mc-right-sidebar", "mc-emblem", "mc-title", "mc-subtitle",
      "mc-main-title" }

\* C27: the slide styled twice with 'marine-corps' is the slide styled once
\* (same background, same elements in the same order), and the second
\* application adds no sidebar, emblem or title element
C27_ApplyTemplateStyleIdempotent ==
    pc = "twice" =>
        /\ appliedTwice = appliedOnce
        /\ \A id \in TemplateIds :
              Cardinality(WithId(appliedTwice, id)) = Cardinality(WithId(appliedOnce, id))

\* C27 witness: the first application added all six elements to a slide that
\* had none of them, and the second application has run
C27_Witness ==
    /\ pc = "twice"
    /\ Len(templateSlide.elements) > 0
    /\ Len(appliedOnce.elements) = Len(templateSlide.elements) + 6
    /\ templateSlide.backgroundColor # appliedOnce.backgroundColor

-----------------------------------------------------------------------------
(* Conversion to application elements (pptx index, convertElements)        *)
(* The application elements carry the fields the conversion sets; the      *)
(* generated ids and the font fields of a text element are left out.       *)

\* value || fallback on a number: 0 and NaN are falsy
OrNumber(value, fallback) ==
    IF value = Num(0) \/ value = NaN THEN Num(fallback) ELSE value

\* element.src || ''
EmptySource == PathStr(<<>>)

OrEmptySource(src) == IF src = Undefined THEN EmptySource ELSE src

convertTextElement(element) ==
    [type |-> "text",
     x |-> OrNumber(element.x, 50), y |-> OrNumber(element.y, 50),
     width |-> OrNumber(element.width, 200), height |-> OrNumber(element.height, 50),
     rotation |-> OrNumber(element.rotation, 0)]

convertShapeElement(element) ==
    [type |-> IF element.shapeType = "ellipse" THEN "ellipse" ELSE "rectangle",
     x |-> OrNumber(element.x, 50), y |-> OrNumber(element.y, 50),
     width |-> OrNumber(element.width, 100), height |-> OrNumber(element.height, 100),
     rotation |-> OrNumber(element.rotation, 0)]

\* variant: the placeholder flag of the engine's image is copied
convertImageElement_WithFlag(element) ==
    [type |-> "image",
     x |-> OrNumber(element.x, 50), y |-> OrNumber(element.y, 50),
     width |-> OrNumber(element.width, 200), height |-> OrNumber(element.height, 150),
     src |-> OrEmptySource(element.src), content |-> OrEmptySource(element.src),
     opacity |-> Num(1), rotation |-> OrNumber(element.rotation, 0),
     isPlaceholder |-> element.isPlaceholder]

\* the returned object has no isPlaceholder property
convertImageElement(element) ==
    [type |-> "image",
     x |-> OrNumber(element.x, 50), y |-> OrNumber(element.y, 50),
     width |-> OrNumber(element.width, 200), height |-> OrNumber(element.height, 150),
     src |-> OrEmptySource(element.src), content |-> OrEmptySource(element.src),
     opacity |-> Num(1), rotation |-> OrNumber(element.rotation, 0)]

\* a shape, followed by its text when it has one
ConvertShape(element) ==
    << convertShapeElement(element) >>
    \o (IF element.textContent # <<>>
        THEN << convertTextElement(element.textContent[1]) >> ELSE <<>>)

\* a child of a group: text, shape or image; anything else is dropped
ConvertChild(child) ==
    CASE child.type = "text" -> << convertTextElement(child) >>
      [] child.type = "shape" -> ConvertShape(child)
      [] child.type = "image" -> << convertImageElement(child) >>
      [] OTHER -> <<>>

\* one iteration of pptxElements.forEach
ConvertOne(element) ==
    CASE element.type = "text" -> << convertTextElement(element) >>
      [] element.type = "shape" -> ConvertShape(element)
      [] element.type = "image" -> << convertImageElement(element) >>
      [] element.type = "group" ->
            Flatten([i \in 1..Len(element.children) |-> ConvertChild(element.children[i])])
      [] OTHER -> <<>>

convertElements(pptxElements) ==
    Flatten([i \in 1..Len(pptxElements) |-> ConvertOne(pptxElements[i])])

-----------------------------------------------------------------------------
(* SpecConvert: convertElements on the elements of one slide               *)

MaxEngineElements == 2 \* elements of a generated engine slide

EngineText == [Element("text") EXCEPT !.x = Num(10), !.y = Num(20)]

EngineShape ==
    [Element("shape") EXCEPT !.x = Num(100), !.width = Num(50), !.height = Num(50),
                             !.shapeType = "ellipse"]

EngineShapeWithText == [EngineShape EXCEPT !.shapeType = "rect", !.textContent = <<EngineText>>]

EngineImage ==
    [Element("image") EXCEPT !.x = Num(30), !.y = Num(40), !.width = Num(96),
                             !.height = Num(96),
                             !.src = DataUrl("image/png", <<"base64", "png">>)]

\* the image extractImage returns when the media is not in the archive
EnginePlaceholder ==
    [EngineImage EXCEPT !.src = generatePlaceholderImage(GivenName("Logo")),
                        !.isPlaceholder = TRUE]

EngineGroup ==
    [Element("group") EXCEPT !.x = Num(100), !.y = Num(100),
                             !.children = <<EnginePlaceholder, EngineShape>>]

EngineNestedGroup == [Element("group") EXCEPT !.children = <<EngineGroup, EngineImage>>]

EngineChart == Element("chart")

EngineElementKinds ==
    { EngineText, EngineShape, EngineShapeWithText, EngineImage, EnginePlaceholder,
      EngineGroup, EngineNestedGroup, EngineChart }

InitConvert ==
    /\ pc = "start"
    /\ engineElements \in UNION { [1..n -> EngineElementKinds] : n \in 0..MaxEngineElements }
    /\ slideElements = <<>>
    /\ IdleCore /\ IdleFill /\ IdleText /\ IdleUnits /\ IdleBatch
    /\ IdleLookup /\ IdleTemplate /\ IdleEditor

ConvertElements ==
    /\ pc = "start"
    /\ slideElements' = convertElements(engineElements)
    /\ pc' = "converted"
    /\ UNCHANGED <<engineElements, coreVars, fillVars, textVars, unitVars, batchVars,
                   lookupVars, templateVars, editorVars>>

NextConvert == ConvertElements

SpecConvert == InitConvert /\ [][NextConvert]_vars

\* the placeholder images of the engine: top level and children of a group
PlaceholderImages(els) ==
    { e \in { AllElements(els)[i] : i \in 1..Len(AllElements(els)) } :
        e.type = "image" /\ e.isPlaceholder }

\* the application element is flagged as a placeholder
Flagged(el) == "isPlaceholder" \in DOMAIN el /\ el.isPlaceholder

\* C28: every engine image with isPlaceholder = true, at top level or in a
\* group, is mapped to an application element of type 'image' that has
\* isPlaceholder = true
C28_PlaceholderFlagPreserved ==
    pc = "converted" =>
        \A e \in PlaceholderImages(engineElements) :
            \E k \in 1..Len(slideElements) :
                /\ slideElements[k].type = "image"
                /\ slideElements[k].src = e.src
                /\ Flagged(slideElements[k])

-----------------------------------------------------------------------------
(* SpecEditor: the slide list of the editor (pages/Index)                  *)
(* A slide is represented by its id.  An id is [time, random]: the slide   *)
(* of the initial state has the literal id '1' ([1, 0]), addSlide and      *)
(* duplicateSlide give Date.now().toString() ([clock, 0]), and the slides  *)
(* of an upload carry Date.now() and a random suffix ([clock, r], r > 0).  *)
(* Each action is one event handler; the component renders between events, *)
(* so a handler reads the state the previous one left.                     *)

MaxSlides == 3         \* slides the list may grow to
MaxClock == 3          \* the last value of Date.now()
MaxUploaded == 2       \* slides of one upload

SlideId(time, random) == [time |-> time, random |-> random]

InitEditor ==
    /\ pc = "editor"
    /\ editorSlides = << SlideId(1, 0) >>
    /\ currentSlideId = SlideId(1, 0)
    /\ clock = 2
    /\ IdleCore /\ IdleFill /\ IdleText /\ IdleUnits /\ IdleBatch
    /\ IdleLookup /\ IdleTemplate /\ IdleConvert

EditorIdle ==
    UNCHANGED <<pc, coreVars, fillVars, textVars, unitVars, batchVars,
                lookupVars, templateVars, convertVars>>

\* a millisecond passes between two events
Tick ==
    /\ clock < MaxClock
    /\ clock' = clock + 1
    /\ UNCHANGED <<editorSlides, currentSlideId>>
    /\ EditorIdle

addSlide ==
    /\ Len(editorSlides) < MaxSlides
    /\ editorSlides' = Append(editorSlides, SlideId(clock, 0))
    /\ currentSlideId' = SlideId(clock, 0)
    /\ UNCHANGED clock
    /\ EditorIdle

\* slides.filter(slide => slide.id !== slideId)
WithoutId(list, slideId) == SelectSeq(list, LAMBDA id : id # slideId)

\* the id read by newSlides[0].id: reading it from an empty list throws after
\* setSlides(newSlides) was called, and the update already queued is applied
FirstIdOr(newSlides, current) == IF newSlides = <<>> THEN current ELSE newSlides[1]

deleteSlide(slideId) ==
    /\ Len(editorSlides) > 1
    /\ editorSlides' = WithoutId(editorSlides, slideId)
    /\ currentSlideId' =
          IF currentSlideId = slideId
          THEN FirstIdOr(WithoutId(editorSlides, slideId), currentSlideId)
          ELSE currentSlideId
    /\ UNCHANGED clock
    /\ EditorIdle

\* slides.findIndex(slide => slide.id === slideId)
FindIndex(list, slideId) == MinOf({ i \in 1..Len(list) : list[i] = slideId })

\* newSlides.splice(slideIndex + 1, 0, newSlide)
InsertAfter(list, at, newSlide) ==
    SubSeq(list, 1, at) \o << newSlide >> \o SubSeq(list, at + 1, Len(list))

duplicateSlide(slideId) ==
    /\ Len(editorSlides) < MaxSlides
    /\ editorSlides' =
          InsertAfter(editorSlides, FindIndex(editorSlides, slideId), SlideId(clock, 0))
    /\ currentSlideId' = SlideId(clock, 0)
    /\ UNCHANGED clock
    /\ EditorIdle

\* onSlideSelect={setCurrentSlideId}
setCurrentSlideId(slideId) ==
    /\ currentSlideId' = slideId
    /\ UNCHANGED <<editorSlides, clock>>
    /\ EditorIdle

\* the random suffixes no slide of the list carries
FreshRandoms(list, n) ==
    { r \in 1..(Len(list) + n) : \A i \in 1..Len(list) : list[i].random # r }

\* the ids of n uploaded slides: the n smallest fresh suffixes
RECURSIVE UploadedIds(_, _)
UploadedIds(list, n) ==
    IF n = 0 THEN <<>>
    ELSE << SlideId(clock, MinOf(FreshRandoms(list, n))) >>
             \o UploadedIds(Append(list, SlideId(clock, MinOf(FreshRandoms(list, n)))), n - 1)

\* the completion of handleFilesUploaded with n new slides
handleFilesUploaded(n) ==
    /\ Len(editorSlides) + n <= MaxSlides
    /\ IF n > 0
       THEN /\ editorSlides' = editorSlides \o UploadedIds(editorSlides, n)
            /\ currentSlideId' = UploadedIds(editorSlides, n)[1]
       ELSE UNCHANGED <<editorSlides, currentSlideId>>
    /\ UNCHANGED clock
    /\ EditorIdle

\* the ids the thumbnails offer: those of the slides of the list
Offered == { editorSlides[i] : i \in 1..Len(editorSlides) }

\* the events of the thumbnails and of the header
DeleteSlide == \E slideId \in Offered : deleteSlide(slideId)

DuplicateSlide == \E slideId \in Offered : duplicateSlide(slideId)

SelectSlide == \E slideId \in Offered : setCurrentSlideId(slideId)

FilesUploaded == \E n \in 0..MaxUploaded : handleFilesUploaded(n)

NextEditor ==
    Tick \/ addSlide \/ DeleteSlide \/ DuplicateSlide \/ SelectSlide \/ FilesUploaded

SpecEditor == InitEditor /\ [][NextEditor]_vars

\* C29: after any sequence of addSlide, duplicateSlide and deleteSlide calls the
\* slides list is never empty
C29_SlidesNeverEmpty == pc = "editor" => Len(editorSlides) >= 1

\* C30: currentSlideId is always the id of a slide of the slides list
C30_CurrentSlidePresent == pc = "editor" => currentSlideId \in Offered

====
